---- MODULE Spec2Model ----
(***************************************************************************)
(* BountyEscrow: the escrow ledger of the FixFlow bounty system.            *)
(*                                                                         *)
(* The contract source is the Solidity text in                             *)
(* src/contracts/test/BountyEscrow.test.js, lines 412-670.  One step of    *)
(* the model is one transaction: Solidity executes a transaction           *)
(* atomically and a revert rolls every state write and token movement      *)
(* back, so a rejected call is a step that changes nothing; what a call    *)
(* answers is the value of its ...Error operator ("" = it goes through).   *)
(*                                                                         *)
(* Amounts are whole MNEE tokens (1 model unit = 1e18 wei); the fee        *)
(* division is the contract's integer division.                            *)
(***************************************************************************)
EXTENDS Integers, Sequences, FiniteSets, TLC

\* ------------------------------------------------------------------ bounds
MaxBounties == 2
MaxTime == 2
MaxEscalations == 3
MaxPayments == 2

\* ------------------------------------------------------- principals, inputs
ZERO == "0x0"
ADMIN == "admin"
ORACLE == "oracle"
CREATOR == "creator"
SOLVER == "solver"
FEE == "feeRecipient"
ESCROW == "escrow"

MNEE_TOKEN == "MNEE"
OTHER_TOKEN == "OTHER"

ORACLE_ROLE == "ORACLE_ROLE"
ADMIN_ROLE == "ADMIN_ROLE"

Callers == {ADMIN, ORACLE, CREATOR, SOLVER}
Holders == Callers \cup {FEE, ESCROW}
FeeRecipients == {ZERO, FEE}
Solvers == {ZERO, SOLVER}
WithdrawTokens == {MNEE_TOKEN}

Repositories == {"owner/repo"}
IssueIds == {1, 2}
IssueKeys == Repositories \X IssueIds
IssueUrl == "https://github.com/owner/repo/issues"
SolverLogin == "solver-login"
PullRequestUrl == "https://github.com/owner/repo/pull"

\* <<amount, maxAmount>> of createBounty: valid, below the minimum, cap below
\* the amount, cap above the configured maximum
CreateArgs == {<<100, 150>>, <<0, 150>>, <<100, 50>>, <<100, 2000000>>}
Expiries == {0, 2}
EscalateAmounts == {50, 100}
WithdrawAmounts == {100}
\* <<min, max, feeBps, feeRecipient>> of updateConfig: two valid settings and
\* one violation of each rule
ConfigArgs ==
    {<<1, 1000000, 250, ZERO>>, <<1, 1000000, 250, FEE>>,
     <<0, 1000000, 250, FEE>>, <<1, 0, 250, FEE>>,
     <<1, 1000000, 1001, FEE>>}
BountyIds == 1..MaxBounties

VARIABLES
    bounties,          \* mapping(uint256 => Bounty), ids 1..nextBountyId-1
    nextBountyId,
    issueToBountyId,   \* mapping(bytes32 => uint256)
    creatorBounties,   \* mapping(address => uint256[])
    solverBounties,    \* mapping(address => uint256[])
    minBountyAmount,
    maxBountyAmount,
    platformFeeBps,
    feeRecipient,
    roles,             \* AccessControl: role -> members
    paused,            \* Pausable
    balance,           \* MNEE balanceOf
    otherBalance,      \* balanceOf of another ERC-20 token
    approved,          \* holders whose MNEE allowance to the escrow is unlimited
    now,               \* block.timestamp
    exits,             \* ghost: successful terminal transitions per bounty
    outflow,           \* ghost: MNEE that left custody for each bounty
    reentrancyStatus,  \* ReentrancyGuard._status
    callStack,         \* the escrow call suspended in its token transfer
    USE_BLOCKCHAIN,    \* process.env.USE_BLOCKCHAIN
    useBlockchain,     \* PaymentService.useBlockchain
    initialized,       \* PaymentService.initialized
    ethBalance,        \* bot wallet's ETH, in units of 0.00001 ETH
    payments,          \* ghost: payouts made through the gateway, in order
    rows,              \* rows of the bounties table
    mneeService,       \* PaymentService.mneeService
    ethereumService,   \* PaymentService.ethereumService
    activeService,     \* PaymentService.activeService
    serviceInitialized, \* each rail service's own `initialized`
    lockingCall        \* the gateway's createBounty/escalateBounty under way

ledgerVars == <<bounties, nextBountyId, issueToBountyId, creatorBounties,
                solverBounties, minBountyAmount, maxBountyAmount,
                platformFeeBps, feeRecipient, roles, paused, balance,
                otherBalance, approved, exits, outflow>>

\* state outside the escrow's storage and the token balances
railVars == <<mneeService, ethereumService, activeService,
              serviceInitialized>>

offLedgerVars == <<reentrancyStatus, callStack, USE_BLOCKCHAIN, useBlockchain,
                   initialized, ethBalance, payments, rows, railVars,
                   lockingCall>>

vars == <<bounties, nextBountyId, issueToBountyId, creatorBounties,
          solverBounties, minBountyAmount, maxBountyAmount, platformFeeBps,
          feeRecipient, roles, paused, balance, otherBalance, approved, now,
          exits, outflow, offLedgerVars>>

\* ------------------------------------------------------------ program data
DefaultMinBountyAmount == 1
DefaultMaxBountyAmount == 1000000
DefaultPlatformFeeBps == 250
MaxFeeBps == 1000
BpsDenominator == 10000
Uint8Max == 255

CreatorFunds == 300
OracleFunds == 50
StrayOtherTokens == 100

\* storage reads of a slot never written give the zero value
ZeroBounty ==
    [id |-> 0, creator |-> ZERO, initialAmount |-> 0, currentAmount |-> 0,
     maxAmount |-> 0, repository |-> "", issueId |-> 0, issueUrl |-> "",
     status |-> "Active", solver |-> ZERO, solverGithubLogin |-> "",
     pullRequestUrl |-> "", createdAt |-> 0, claimedAt |-> 0,
     expiresAt |-> 0, escalationCount |-> 0]

Bounty(bountyId) ==
    IF bountyId \in DOMAIN bounties THEN bounties[bountyId] ELSE ZeroBounty

\* keccak256(abi.encodePacked(repository, issueId)): the 32-byte issueId is
\* the fixed-width tail of the preimage, so the key is the pair itself
issueHash(repository, issueId) == <<repository, issueId>>

hasRole(role, account) == account \in roles[role]

\* revert: the transaction's writes and token transfers are rolled back
Revert == UNCHANGED vars

\* IERC20.safeTransferFrom(from, escrow, amount): "" when it goes through
transferFromError(from, amount) ==
    IF amount > 0 /\ from \notin approved THEN "ERC20InsufficientAllowance"
    ELSE IF balance[from] < amount THEN "ERC20InsufficientBalance"
    ELSE ""

\* IERC20.safeTransfer(to, amount) out of a holder with `have` tokens
transferError(have, amount) ==
    IF have < amount THEN "ERC20InsufficientBalance" ELSE ""

\* Move with the token transfer left out
Move_Dropped(bal, from, to, amount) == bal

Move(bal, from, to, amount) ==
    IF from = to \/ amount = 0 THEN bal
    ELSE [bal EXCEPT ![from] = @ - amount, ![to] = @ + amount]

\* ------------------------------------------------------------ constructor
\* no escrow call is running; the bot process has not started
NoCall == [fn |-> ""]

WalletEth == 50

\* the payment rails: the MNEE SDK service and the Ethereum service, each a
\* module-level singleton constructed with initialized = false
NULL == "null"
MNEE_RAIL == "mnee"
ETHEREUM_RAIL == "ethereum"
Rails == {MNEE_RAIL, ETHEREUM_RAIL}

\* the gateway has no createBounty or escalateBounty under way
NoLockingCall ==
    [fn |-> "", pc |-> "", args |-> <<>>, amount |-> 0,
     approvedByCall |-> FALSE]

\* the bot process starts under the environment `env`
InitOffLedgerIn(env) ==
    /\ reentrancyStatus = "NOT_ENTERED"
    /\ callStack = NoCall
    /\ USE_BLOCKCHAIN = env
    /\ useBlockchain = FALSE
    /\ initialized = FALSE
    /\ ethBalance = WalletEth
    /\ payments = <<>>
    /\ rows = {}
    /\ mneeService = NULL
    /\ ethereumService = NULL
    /\ activeService = NULL
    /\ serviceInitialized = [rail \in Rails |-> FALSE]
    /\ lockingCall = NoLockingCall

InitOffLedger == InitOffLedgerIn("true")

\* the deployed ledger, the holders in `holders` having approved the escrow
InitLedgerApproving(holders) ==
    /\ bounties = <<>>
    /\ nextBountyId = 1
    /\ issueToBountyId = [k \in IssueKeys |-> 0]
    /\ creatorBounties = [a \in Callers |-> <<>>]
    /\ solverBounties = [a \in Solvers |-> <<>>]
    /\ minBountyAmount = DefaultMinBountyAmount
    /\ maxBountyAmount = DefaultMaxBountyAmount
    /\ platformFeeBps = DefaultPlatformFeeBps
    /\ feeRecipient \in FeeRecipients
    /\ roles = [r \in {ORACLE_ROLE, ADMIN_ROLE} |->
                   IF r = ORACLE_ROLE THEN {ORACLE} ELSE {ADMIN}]
    /\ paused = FALSE
    /\ balance = [h \in Holders |->
                     IF h = CREATOR THEN CreatorFunds
                     ELSE IF h = ORACLE THEN OracleFunds ELSE 0]
    /\ otherBalance = [h \in Holders |->
                          IF h = ESCROW THEN StrayOtherTokens ELSE 0]
    /\ approved = holders
    /\ now = 1
    /\ exits = [b \in BountyIds |-> 0]
    /\ outflow = [b \in BountyIds |-> 0]

InitLedger == InitLedgerApproving({CREATOR, ORACLE})

Init == InitLedger /\ InitOffLedger

\* ------------------------------------------------------------ createBounty
\* createError without the lookup of the issue's bounty
createError_NoDuplicateCheck(caller, repository, issueId, amount, maxAmount, expiresAt) ==
    IF paused THEN "EnforcedPause"
    ELSE IF amount < minBountyAmount \/ amount > maxBountyAmount
        THEN "InvalidAmount"
    ELSE IF maxAmount < amount \/ maxAmount > maxBountyAmount
        THEN "InvalidAmount"
    ELSE IF expiresAt # 0 /\ expiresAt <= now THEN "InvalidAmount"
    ELSE transferFromError(caller, amount)

\* createError without the check of the cap
createError_NoCapCheck(caller, repository, issueId, amount, maxAmount, expiresAt) ==
    IF paused THEN "EnforcedPause"
    ELSE IF amount < minBountyAmount \/ amount > maxBountyAmount
        THEN "InvalidAmount"
    ELSE IF expiresAt # 0 /\ expiresAt <= now THEN "InvalidAmount"
    ELSE IF issueToBountyId[issueHash(repository, issueId)] # 0
        THEN "BountyAlreadyExists"
    ELSE transferFromError(caller, amount)

createError(caller, repository, issueId, amount, maxAmount, expiresAt) ==
    IF paused THEN "EnforcedPause"
    ELSE IF amount < minBountyAmount \/ amount > maxBountyAmount
        THEN "InvalidAmount"
    ELSE IF maxAmount < amount \/ maxAmount > maxBountyAmount
        THEN "InvalidAmount"
    ELSE IF expiresAt # 0 /\ expiresAt <= now THEN "InvalidAmount"
    ELSE IF issueToBountyId[issueHash(repository, issueId)] # 0
        THEN "BountyAlreadyExists"
    ELSE transferFromError(caller, amount)

createBounty(caller, repository, issueId, issueUrl, amount, maxAmount, expiresAt) ==
    LET err == createError(caller, repository, issueId, amount, maxAmount,
                           expiresAt)
        bountyId == nextBountyId
    IN  /\ nextBountyId <= MaxBounties
        /\ IF err # ""
           THEN Revert
           ELSE /\ nextBountyId' = nextBountyId + 1
                /\ bounties' = Append(bounties,
                       [id |-> bountyId, creator |-> caller,
                        initialAmount |-> amount, currentAmount |-> amount,
                        maxAmount |-> maxAmount, repository |-> repository,
                        issueId |-> issueId, issueUrl |-> issueUrl,
                        status |-> "Active", solver |-> ZERO,
                        solverGithubLogin |-> "", pullRequestUrl |-> "",
                        createdAt |-> now, claimedAt |-> 0,
                        expiresAt |-> expiresAt, escalationCount |-> 0])
                /\ issueToBountyId' =
                       [issueToBountyId EXCEPT
                            ![issueHash(repository, issueId)] = bountyId]
                /\ creatorBounties' =
                       [creatorBounties EXCEPT ![caller] = Append(@, bountyId)]
                /\ balance' = Move(balance, caller, ESCROW, amount)
                /\ UNCHANGED <<offLedgerVars, solverBounties, minBountyAmount,
                               maxBountyAmount, platformFeeBps, feeRecipient,
                               roles, paused, otherBalance, approved, now,
                               exits, outflow>>

\* ---------------------------------------------------------- escalateBounty
\* escalateError comparing the cap with the amount before the top-up
escalateError_CapBeforeAdd(caller, bountyId, additionalAmount) ==
    LET bounty == Bounty(bountyId) IN
    IF paused THEN "EnforcedPause"
    ELSE IF bounty.id = 0 THEN "BountyNotFound"
    ELSE IF bounty.status # "Active" THEN "BountyNotActive"
    ELSE IF bounty.creator # caller /\ ~hasRole(ORACLE_ROLE, caller)
        THEN "UnauthorizedCaller"
    ELSE IF bounty.currentAmount > bounty.maxAmount
        THEN "MaxAmountExceeded"
    ELSE IF bounty.escalationCount = Uint8Max THEN "Panic"
    ELSE IF additionalAmount > 0
        THEN transferFromError(caller, additionalAmount)
    ELSE ""

\* escalateError without the status check
escalateError_NoStatusCheck(caller, bountyId, additionalAmount) ==
    LET bounty == Bounty(bountyId) IN
    IF paused THEN "EnforcedPause"
    ELSE IF bounty.id = 0 THEN "BountyNotFound"
    ELSE IF bounty.creator # caller /\ ~hasRole(ORACLE_ROLE, caller)
        THEN "UnauthorizedCaller"
    ELSE IF bounty.currentAmount + additionalAmount > bounty.maxAmount
        THEN "MaxAmountExceeded"
    ELSE IF bounty.escalationCount = Uint8Max THEN "Panic"
    ELSE IF additionalAmount > 0
        THEN transferFromError(caller, additionalAmount)
    ELSE ""

\* escalateError letting an admin in where the code asks for the oracle role
escalateError_AdminAllowed(caller, bountyId, additionalAmount) ==
    LET bounty == Bounty(bountyId) IN
    IF paused THEN "EnforcedPause"
    ELSE IF bounty.id = 0 THEN "BountyNotFound"
    ELSE IF bounty.status # "Active" THEN "BountyNotActive"
    ELSE IF /\ bounty.creator # caller
            /\ ~hasRole(ORACLE_ROLE, caller)
            /\ ~hasRole(ADMIN_ROLE, caller)
        THEN "UnauthorizedCaller"
    ELSE IF bounty.currentAmount + additionalAmount > bounty.maxAmount
        THEN "MaxAmountExceeded"
    ELSE IF bounty.escalationCount = Uint8Max THEN "Panic"
    ELSE IF additionalAmount > 0
        THEN transferFromError(caller, additionalAmount)
    ELSE ""

escalateError(caller, bountyId, additionalAmount) ==
    LET bounty == Bounty(bountyId) IN
    IF paused THEN "EnforcedPause"
    ELSE IF bounty.id = 0 THEN "BountyNotFound"
    ELSE IF bounty.status # "Active" THEN "BountyNotActive"
    ELSE IF bounty.creator # caller /\ ~hasRole(ORACLE_ROLE, caller)
        THEN "UnauthorizedCaller"
    ELSE IF bounty.currentAmount + additionalAmount > bounty.maxAmount
        THEN "MaxAmountExceeded"
    ELSE IF bounty.escalationCount = Uint8Max THEN "Panic"
    ELSE IF additionalAmount > 0
        THEN transferFromError(caller, additionalAmount)
    ELSE ""

\* escalateBounty without the increment of escalationCount
escalateBounty_NoCount(caller, bountyId, additionalAmount) ==
    LET err == escalateError(caller, bountyId, additionalAmount)
        bounty == Bounty(bountyId)
        newAmount == bounty.currentAmount + additionalAmount
    IN  /\ IF err # ""
           THEN Revert
           ELSE /\ bounties' =
                       [bounties EXCEPT ![bountyId].currentAmount = newAmount]
                /\ balance' = Move(balance, caller, ESCROW, additionalAmount)
                /\ UNCHANGED <<offLedgerVars, nextBountyId, issueToBountyId,
                               creatorBounties, solverBounties,
                               minBountyAmount, maxBountyAmount,
                               platformFeeBps, feeRecipient, roles, paused,
                               otherBalance, approved, now, exits, outflow>>

\* escalateBounty drawing the top-up from the bounty's creator
escalateBounty_FromCreator(caller, bountyId, additionalAmount) ==
    LET err == escalateError(caller, bountyId, additionalAmount)
        bounty == Bounty(bountyId)
        newAmount == bounty.currentAmount + additionalAmount
    IN  /\ IF err # ""
           THEN Revert
           ELSE /\ bounties' =
                       [bounties EXCEPT
                            ![bountyId].currentAmount = newAmount,
                            ![bountyId].escalationCount = @ + 1]
                /\ balance' = Move(balance, bounty.creator, ESCROW,
                                   additionalAmount)
                /\ UNCHANGED <<offLedgerVars, nextBountyId, issueToBountyId,
                               creatorBounties, solverBounties,
                               minBountyAmount, maxBountyAmount,
                               platformFeeBps, feeRecipient, roles, paused,
                               otherBalance, approved, now, exits, outflow>>

escalateBounty(caller, bountyId, additionalAmount) ==
    LET err == escalateError(caller, bountyId, additionalAmount)
        bounty == Bounty(bountyId)
        newAmount == bounty.currentAmount + additionalAmount
    IN  /\ IF err # ""
           THEN Revert
           ELSE /\ bounties' =
                       [bounties EXCEPT
                            ![bountyId].currentAmount = newAmount,
                            ![bountyId].escalationCount = @ + 1]
                /\ balance' = Move(balance, caller, ESCROW, additionalAmount)
                /\ UNCHANGED <<offLedgerVars, nextBountyId, issueToBountyId, creatorBounties,
                               solverBounties, minBountyAmount,
                               maxBountyAmount, platformFeeBps, feeRecipient,
                               roles, paused, otherBalance, approved, now,
                               exits, outflow>>

\* ----------------------------------------------------------- releaseBounty
\* platformFeeOf rounding up instead of down
platformFeeOf_RoundUp(currentAmount) ==
    (currentAmount * platformFeeBps + BpsDenominator - 1) \div BpsDenominator

\* platformFeeOf at the rate the contract was deployed with
platformFeeOf_AtDefault(currentAmount) ==
    (currentAmount * DefaultPlatformFeeBps) \div BpsDenominator

platformFeeOf(currentAmount) ==
    (currentAmount * platformFeeBps) \div BpsDenominator

\* the fee transfer of releaseBounty is made only under this condition
feeIsPaid(platformFee) == platformFee > 0 /\ feeRecipient # ZERO

\* releaseError without whenNotPaused
releaseError_NoPauseCheck(caller, bountyId, solver) ==
    LET bounty == Bounty(bountyId)
        platformFee == platformFeeOf(bounty.currentAmount)
        solverAmount == bounty.currentAmount - platformFee
    IN
    IF ~hasRole(ORACLE_ROLE, caller) THEN "AccessControlUnauthorizedAccount"
    ELSE IF solver = ZERO THEN "InvalidSolverAddress"
    ELSE IF bounty.id = 0 THEN "BountyNotFound"
    ELSE IF bounty.status # "Active" THEN "BountyNotActive"
    ELSE IF transferError(balance[ESCROW], solverAmount) # ""
        THEN transferError(balance[ESCROW], solverAmount)
    ELSE IF feeIsPaid(platformFee)
        THEN transferError(balance[ESCROW] - solverAmount, platformFee)
    ELSE ""

\* releaseError without the status check
releaseError_NoStatusCheck(caller, bountyId, solver) ==
    LET bounty == Bounty(bountyId)
        platformFee == platformFeeOf(bounty.currentAmount)
        solverAmount == bounty.currentAmount - platformFee
    IN
    IF ~hasRole(ORACLE_ROLE, caller) THEN "AccessControlUnauthorizedAccount"
    ELSE IF paused THEN "EnforcedPause"
    ELSE IF solver = ZERO THEN "InvalidSolverAddress"
    ELSE IF bounty.id = 0 THEN "BountyNotFound"
    ELSE IF transferError(balance[ESCROW], solverAmount) # ""
        THEN transferError(balance[ESCROW], solverAmount)
    ELSE IF feeIsPaid(platformFee)
        THEN transferError(balance[ESCROW] - solverAmount, platformFee)
    ELSE ""

\* releaseError without the solver address check
releaseError_NoSolverCheck(caller, bountyId, solver) ==
    LET bounty == Bounty(bountyId)
        platformFee == platformFeeOf(bounty.currentAmount)
        solverAmount == bounty.currentAmount - platformFee
    IN
    IF ~hasRole(ORACLE_ROLE, caller) THEN "AccessControlUnauthorizedAccount"
    ELSE IF paused THEN "EnforcedPause"
    ELSE IF bounty.id = 0 THEN "BountyNotFound"
    ELSE IF bounty.status # "Active" THEN "BountyNotActive"
    ELSE IF transferError(balance[ESCROW], solverAmount) # ""
        THEN transferError(balance[ESCROW], solverAmount)
    ELSE IF feeIsPaid(platformFee)
        THEN transferError(balance[ESCROW] - solverAmount, platformFee)
    ELSE ""

\* releaseError turning an Active bounty down once its expiry has come
releaseError_ExpiryChecked(caller, bountyId, solver) ==
    LET bounty == Bounty(bountyId)
        platformFee == platformFeeOf(bounty.currentAmount)
        solverAmount == bounty.currentAmount - platformFee
    IN
    IF ~hasRole(ORACLE_ROLE, caller) THEN "AccessControlUnauthorizedAccount"
    ELSE IF paused THEN "EnforcedPause"
    ELSE IF solver = ZERO THEN "InvalidSolverAddress"
    ELSE IF bounty.id = 0 THEN "BountyNotFound"
    ELSE IF bounty.status # "Active" THEN "BountyNotActive"
    ELSE IF bounty.expiresAt # 0 /\ now >= bounty.expiresAt
        THEN "BountyNotActive"
    ELSE IF transferError(balance[ESCROW], solverAmount) # ""
        THEN transferError(balance[ESCROW], solverAmount)
    ELSE IF feeIsPaid(platformFee)
        THEN transferError(balance[ESCROW] - solverAmount, platformFee)
    ELSE ""

releaseError(caller, bountyId, solver) ==
    LET bounty == Bounty(bountyId)
        platformFee == platformFeeOf(bounty.currentAmount)
        solverAmount == bounty.currentAmount - platformFee
    IN
    IF ~hasRole(ORACLE_ROLE, caller) THEN "AccessControlUnauthorizedAccount"
    ELSE IF paused THEN "EnforcedPause"
    ELSE IF solver = ZERO THEN "InvalidSolverAddress"
    ELSE IF bounty.id = 0 THEN "BountyNotFound"
    ELSE IF bounty.status # "Active" THEN "BountyNotActive"
    ELSE IF transferError(balance[ESCROW], solverAmount) # ""
        THEN transferError(balance[ESCROW], solverAmount)
    ELSE IF feeIsPaid(platformFee)
        THEN transferError(balance[ESCROW] - solverAmount, platformFee)
    ELSE ""

\* releaseBounty without the entry in the solver's index
releaseBounty_NoIndex(caller, bountyId, solver, solverGithubLogin, pullRequestUrl) ==
    LET err == releaseError(caller, bountyId, solver)
        bounty == Bounty(bountyId)
        platformFee == platformFeeOf(bounty.currentAmount)
        solverAmount == bounty.currentAmount - platformFee
        paid == IF feeIsPaid(platformFee) THEN platformFee ELSE 0
    IN  IF err # ""
        THEN Revert
        ELSE /\ bounties' =
                    [bounties EXCEPT
                         ![bountyId].status = "Claimed",
                         ![bountyId].solver = solver,
                         ![bountyId].solverGithubLogin = solverGithubLogin,
                         ![bountyId].pullRequestUrl = pullRequestUrl,
                         ![bountyId].claimedAt = now]
             /\ balance' = Move(Move(balance, ESCROW, solver, solverAmount),
                                ESCROW, feeRecipient, paid)
             /\ exits' = [exits EXCEPT ![bountyId] = @ + 1]
             /\ outflow' = [outflow EXCEPT ![bountyId] = @ + solverAmount + paid]
             /\ UNCHANGED <<offLedgerVars, nextBountyId, issueToBountyId,
                            creatorBounties, solverBounties, minBountyAmount,
                            maxBountyAmount, platformFeeBps, feeRecipient,
                            roles, paused, otherBalance, approved, now>>

releaseBounty(caller, bountyId, solver, solverGithubLogin, pullRequestUrl) ==
    LET err == releaseError(caller, bountyId, solver)
        bounty == Bounty(bountyId)
        platformFee == platformFeeOf(bounty.currentAmount)
        solverAmount == bounty.currentAmount - platformFee
        paid == IF feeIsPaid(platformFee) THEN platformFee ELSE 0
    IN  IF err # ""
        THEN Revert
        ELSE /\ bounties' =
                    [bounties EXCEPT
                         ![bountyId].status = "Claimed",
                         ![bountyId].solver = solver,
                         ![bountyId].solverGithubLogin = solverGithubLogin,
                         ![bountyId].pullRequestUrl = pullRequestUrl,
                         ![bountyId].claimedAt = now]
             /\ solverBounties' =
                    [solverBounties EXCEPT ![solver] = Append(@, bountyId)]
             /\ balance' = Move(Move(balance, ESCROW, solver, solverAmount),
                                ESCROW, feeRecipient, paid)
             /\ exits' = [exits EXCEPT ![bountyId] = @ + 1]
             /\ outflow' = [outflow EXCEPT ![bountyId] = @ + solverAmount + paid]
             /\ UNCHANGED <<offLedgerVars, nextBountyId, issueToBountyId, creatorBounties,
                            minBountyAmount, maxBountyAmount, platformFeeBps,
                            feeRecipient, roles, paused, otherBalance,
                            approved, now>>

\* ------------------------------------------------------------ cancelBounty
\* cancelError without the status check
cancelError_NoStatusCheck(caller, bountyId) ==
    LET bounty == Bounty(bountyId) IN
    IF bounty.id = 0 THEN "BountyNotFound"
    ELSE IF bounty.creator # caller /\ ~hasRole(ADMIN_ROLE, caller)
        THEN "UnauthorizedCaller"
    ELSE transferError(balance[ESCROW], bounty.currentAmount)

\* cancelError without the caller check
cancelError_NoCallerCheck(caller, bountyId) ==
    LET bounty == Bounty(bountyId) IN
    IF bounty.id = 0 THEN "BountyNotFound"
    ELSE IF bounty.status # "Active" THEN "BountyNotActive"
    ELSE transferError(balance[ESCROW], bounty.currentAmount)

cancelError(caller, bountyId) ==
    LET bounty == Bounty(bountyId) IN
    IF bounty.id = 0 THEN "BountyNotFound"
    ELSE IF bounty.status # "Active" THEN "BountyNotActive"
    ELSE IF bounty.creator # caller /\ ~hasRole(ADMIN_ROLE, caller)
        THEN "UnauthorizedCaller"
    ELSE transferError(balance[ESCROW], bounty.currentAmount)

\* Refund zeroing currentAmount as the bounty leaves the Active status
Refund_ZeroAmount(bountyId, status, event) ==
    LET bounty == Bounty(bountyId)
        refundAmount == bounty.currentAmount
    IN  /\ bounties' = [bounties EXCEPT ![bountyId].status = status,
                                        ![bountyId].currentAmount = 0]
        /\ balance' = Move(balance, ESCROW, bounty.creator, refundAmount)
        /\ exits' = [exits EXCEPT ![bountyId] = @ + 1]
        /\ outflow' = [outflow EXCEPT ![bountyId] = @ + refundAmount]
        /\ UNCHANGED <<offLedgerVars, nextBountyId, issueToBountyId, creatorBounties,
                       solverBounties, minBountyAmount, maxBountyAmount,
                       platformFeeBps, feeRecipient, roles, paused,
                       otherBalance, approved, now>>

\* Refund keeping the platform fee back from the refund
Refund_LessFee(bountyId, status, event) ==
    LET bounty == Bounty(bountyId)
        refundAmount == bounty.currentAmount - platformFeeOf(bounty.currentAmount)
    IN  /\ bounties' = [bounties EXCEPT ![bountyId].status = status]
        /\ balance' = Move(balance, ESCROW, bounty.creator, refundAmount)
        /\ exits' = [exits EXCEPT ![bountyId] = @ + 1]
        /\ outflow' = [outflow EXCEPT ![bountyId] = @ + refundAmount]
        /\ UNCHANGED <<offLedgerVars, nextBountyId, issueToBountyId, creatorBounties,
                       solverBounties, minBountyAmount, maxBountyAmount,
                       platformFeeBps, feeRecipient, roles, paused,
                       otherBalance, approved, now>>

\* the refund common to cancelBounty and claimExpiredBounty
Refund(bountyId, status, event) ==
    LET bounty == Bounty(bountyId)
        refundAmount == bounty.currentAmount
    IN  /\ bounties' = [bounties EXCEPT ![bountyId].status = status]
        /\ balance' = Move(balance, ESCROW, bounty.creator, refundAmount)
        /\ exits' = [exits EXCEPT ![bountyId] = @ + 1]
        /\ outflow' = [outflow EXCEPT ![bountyId] = @ + refundAmount]
        /\ UNCHANGED <<offLedgerVars, nextBountyId, issueToBountyId, creatorBounties,
                       solverBounties, minBountyAmount, maxBountyAmount,
                       platformFeeBps, feeRecipient, roles, paused,
                       otherBalance, approved, now>>

cancelBounty(caller, bountyId) ==
    LET err == cancelError(caller, bountyId) IN
    IF err # ""
    THEN Revert
    ELSE Refund(bountyId, "Cancelled", "BountyCancelled")

\* ------------------------------------------------------ claimExpiredBounty
claimExpiredError(caller, bountyId) ==
    LET bounty == Bounty(bountyId) IN
    IF bounty.id = 0 THEN "BountyNotFound"
    ELSE IF bounty.status # "Active" THEN "BountyNotActive"
    ELSE IF bounty.expiresAt = 0 \/ now < bounty.expiresAt
        THEN "BountyNotActive"
    ELSE transferError(balance[ESCROW], bounty.currentAmount)

claimExpiredBounty(caller, bountyId) ==
    LET err == claimExpiredError(caller, bountyId) IN
    IF err # ""
    THEN Revert
    ELSE Refund(bountyId, "Expired", "BountyExpired")

\* ------------------------------------------------------------------ views
getBounty(bountyId) == Bounty(bountyId)

\* ---------------------------------------------------------- administration
\* the four values updateConfig sets
configuration ==
    <<minBountyAmount, maxBountyAmount, platformFeeBps, feeRecipient>>

\* updateConfigError without the check of the fee rate
updateConfigError_NoFeeCap(caller, min, max, feeBps, recipient) ==
    IF ~hasRole(ADMIN_ROLE, caller) THEN "AccessControlUnauthorizedAccount"
    ELSE IF min = 0 \/ max < min THEN "InvalidConfiguration"
    ELSE ""

updateConfigError(caller, min, max, feeBps, recipient) ==
    IF ~hasRole(ADMIN_ROLE, caller) THEN "AccessControlUnauthorizedAccount"
    ELSE IF min = 0 \/ max < min THEN "InvalidConfiguration"
    ELSE IF feeBps > MaxFeeBps THEN "InvalidConfiguration"
    ELSE ""

updateConfig(caller, min, max, feeBps, recipient) ==
    LET err == updateConfigError(caller, min, max, feeBps, recipient)
    IN  IF err # ""
        THEN Revert
        ELSE /\ minBountyAmount' = min
             /\ maxBountyAmount' = max
             /\ platformFeeBps' = feeBps
             /\ feeRecipient' = recipient
             /\ UNCHANGED <<offLedgerVars, bounties, nextBountyId, issueToBountyId,
                            creatorBounties, solverBounties, roles, paused,
                            balance, otherBalance, approved, now, exits,
                            outflow>>

pauseError(caller) ==
    IF ~hasRole(ADMIN_ROLE, caller) THEN "AccessControlUnauthorizedAccount"
    ELSE IF paused THEN "EnforcedPause"
    ELSE ""

pause(caller) ==
    LET err == pauseError(caller) IN
    IF err # ""
    THEN Revert
    ELSE /\ paused' = TRUE
         /\ UNCHANGED <<offLedgerVars, bounties, nextBountyId, issueToBountyId,
                        creatorBounties, solverBounties, minBountyAmount,
                        maxBountyAmount, platformFeeBps, feeRecipient, roles,
                        balance, otherBalance, approved, now, exits, outflow>>

unpauseError(caller) ==
    IF ~hasRole(ADMIN_ROLE, caller) THEN "AccessControlUnauthorizedAccount"
    ELSE IF ~paused THEN "ExpectedPause"
    ELSE ""

unpause(caller) ==
    LET err == unpauseError(caller) IN
    IF err # ""
    THEN Revert
    ELSE /\ paused' = FALSE
         /\ UNCHANGED <<offLedgerVars, bounties, nextBountyId, issueToBountyId,
                        creatorBounties, solverBounties, minBountyAmount,
                        maxBountyAmount, platformFeeBps, feeRecipient, roles,
                        balance, otherBalance, approved, now, exits, outflow>>

emergencyWithdrawError(caller, token, amount) ==
    IF ~hasRole(ADMIN_ROLE, caller) THEN "AccessControlUnauthorizedAccount"
    ELSE IF token = MNEE_TOKEN THEN transferError(balance[ESCROW], amount)
    ELSE transferError(otherBalance[ESCROW], amount)

emergencyWithdraw(caller, token, amount) ==
    LET err == emergencyWithdrawError(caller, token, amount) IN
    IF err # ""
    THEN Revert
    ELSE /\ balance' = IF token = MNEE_TOKEN
                       THEN Move(balance, ESCROW, caller, amount)
                       ELSE balance
         /\ otherBalance' = IF token = MNEE_TOKEN
                            THEN otherBalance
                            ELSE Move(otherBalance, ESCROW, caller, amount)
         /\ UNCHANGED <<offLedgerVars, bounties, nextBountyId, issueToBountyId,
                        creatorBounties, solverBounties, minBountyAmount,
                        maxBountyAmount, platformFeeBps, feeRecipient, roles,
                        paused, approved, now, exits, outflow>>

\* ------------------------------------------------------------------- time
\* a later block: block.timestamp advances between transactions
Tick ==
    /\ now < MaxTime
    /\ now' = now + 1
    /\ UNCHANGED <<ledgerVars, offLedgerVars>>

\* ---------------------------------------------------------- specification
Next ==
    \/ \E c \in Callers, r \in Repositories, i \in IssueIds,
          a \in CreateArgs, e \in Expiries :
          createBounty(c, r, i, IssueUrl, a[1], a[2], e)
    \/ \E c \in Callers, b \in BountyIds, a \in EscalateAmounts :
          /\ Bounty(b).escalationCount < MaxEscalations
          /\ escalateBounty(c, b, a)
    \/ \E c \in Callers, b \in BountyIds, s \in Solvers :
          releaseBounty(c, b, s, SolverLogin, PullRequestUrl)
    \/ \E c \in Callers, b \in BountyIds : cancelBounty(c, b)
    \/ \E c \in Callers, b \in BountyIds : claimExpiredBounty(c, b)
    \/ \E c \in Callers, a \in ConfigArgs :
          updateConfig(c, a[1], a[2], a[3], a[4])
    \/ \E c \in Callers : pause(c)
    \/ \E c \in Callers : unpause(c)
    \/ \E c \in Callers, t \in WithdrawTokens, a \in WithdrawAmounts :
          emergencyWithdraw(c, t, a)
    \/ Tick

Spec == Init /\ [][Next]_vars

\* --------------------------------------------- releases over amounts, rates
\* One Active bounty of amount A under fee rate r: the state after
\* createBounty(.., A, A, 0) by a creator holding A tokens and
\* updateConfig(1, 1000000, r, FEE).
FeeAmounts == (1..30) \cup {100, 150, 399, 9999}
FeeRates == {0, 1, 250, 333, 1000}

InitFee ==
    \E A \in FeeAmounts, r \in FeeRates :
        /\ bounties = << [id |-> 1, creator |-> CREATOR,
                          initialAmount |-> A, currentAmount |-> A,
                          maxAmount |-> A, repository |-> "owner/repo",
                          issueId |-> 1, issueUrl |-> IssueUrl,
                          status |-> "Active", solver |-> ZERO,
                          solverGithubLogin |-> "", pullRequestUrl |-> "",
                          createdAt |-> 1, claimedAt |-> 0,
                          expiresAt |-> 0, escalationCount |-> 0] >>
        /\ nextBountyId = 2
        /\ issueToBountyId =
               [k \in IssueKeys |-> IF k = <<"owner/repo", 1>> THEN 1 ELSE 0]
        /\ creatorBounties =
               [a \in Callers |-> IF a = CREATOR THEN <<1>> ELSE <<>>]
        /\ solverBounties = [a \in Solvers |-> <<>>]
        /\ minBountyAmount = DefaultMinBountyAmount
        /\ maxBountyAmount = DefaultMaxBountyAmount
        /\ platformFeeBps = r
        /\ feeRecipient = FEE
        /\ roles = [x \in {ORACLE_ROLE, ADMIN_ROLE} |->
                       IF x = ORACLE_ROLE THEN {ORACLE} ELSE {ADMIN}]
        /\ paused = FALSE
        /\ balance = [h \in Holders |-> IF h = ESCROW THEN A ELSE 0]
        /\ otherBalance = [h \in Holders |-> 0]
        /\ approved = {CREATOR}
        /\ now = 1
        /\ exits = [b \in BountyIds |-> 0]
        /\ outflow = [b \in BountyIds |-> 0]
        /\ InitOffLedger

NextFee ==
    \E c \in Callers, s \in Solvers :
        releaseBounty(c, 1, s, SolverLogin, PullRequestUrl)

SpecFee == InitFee /\ [][NextFee]_vars

\* ------------------------------------------ escalations, small and zero too
EscalateAmountsWide == {0, 25, 50, 75}

NextEscalate ==
    \/ \E i \in IssueIds, e \in Expiries :
          createBounty(CREATOR, "owner/repo", i, IssueUrl, 100, 150, e)
    \/ \E c \in Callers, b \in BountyIds, a \in EscalateAmountsWide :
          /\ Bounty(b).escalationCount < MaxEscalations
          /\ escalateBounty(c, b, a)
    \/ \E c \in Callers, b \in BountyIds : cancelBounty(c, b)

SpecEscalate == Init /\ [][NextEscalate]_vars

\* ------------------------------------- creations under changing configuration
\* <<amount, maxAmount>> around the limits of the configurations below
CreateArgsWide ==
    {<<100, 150>>, <<100, 100>>, <<1, 1>>, <<0, 150>>, <<120, 150>>,
     <<150, 200>>, <<100, 50>>, <<100, 2000000>>, <<2000000, 2000000>>}
\* <<min, max, feeBps, feeRecipient>>: the defaults, a higher minimum, a lower
\* maximum, minimum = maximum
ConfigArgsWide ==
    {<<1, 1000000, 250, FEE>>, <<120, 1000000, 250, FEE>>,
     <<1, 120, 250, FEE>>, <<100, 100, 250, FEE>>}

NextCreate ==
    \/ \E c \in Callers, i \in IssueIds, a \in CreateArgsWide, e \in Expiries :
          createBounty(c, "owner/repo", i, IssueUrl, a[1], a[2], e)
    \/ \E a \in ConfigArgsWide : updateConfig(ADMIN, a[1], a[2], a[3], a[4])
    \/ \E c \in Callers, b \in BountyIds : cancelBounty(c, b)

SpecCreate == Init /\ [][NextCreate]_vars

\* ------------------------------------------ every call on one issue's bounty
\* All operations, all callers, on the bounty of one issue and on an id that
\* names no bounty; both tokens can be withdrawn.
AtomicBountyIds == {1, 2}
AtomicTokens == {MNEE_TOKEN, OTHER_TOKEN}
AtomicEscalateAmounts == {50}

NextAtomic ==
    \/ \E c \in Callers, a \in CreateArgs, e \in Expiries :
          createBounty(c, "owner/repo", 1, IssueUrl, a[1], a[2], e)
    \/ \E c \in Callers, b \in AtomicBountyIds, a \in AtomicEscalateAmounts :
          /\ Bounty(b).escalationCount < MaxEscalations
          /\ escalateBounty(c, b, a)
    \/ \E c \in Callers, b \in AtomicBountyIds, s \in Solvers :
          releaseBounty(c, b, s, SolverLogin, PullRequestUrl)
    \/ \E c \in Callers, b \in AtomicBountyIds : cancelBounty(c, b)
    \/ \E c \in Callers, b \in AtomicBountyIds : claimExpiredBounty(c, b)
    \/ \E c \in Callers, a \in ConfigArgs :
          updateConfig(c, a[1], a[2], a[3], a[4])
    \/ \E c \in Callers : pause(c)
    \/ \E c \in Callers : unpause(c)
    \/ \E c \in Callers, t \in AtomicTokens, a \in WithdrawAmounts :
          emergencyWithdraw(c, t, a)
    \/ Tick

SpecAtomic == Init /\ [][NextAtomic]_vars

\* ------------------------------------------------ administration by anyone
\* <<min, max, feeBps, feeRecipient>> at the edges of updateConfig's rules
ConfigArgsEdge ==
    {<<1, 1, 0, ZERO>>, <<100, 100, 1000, FEE>>, <<2, 1, 250, FEE>>,
     <<0, 0, 0, FEE>>}
ConfigArgsAll == ConfigArgs \cup ConfigArgsWide \cup ConfigArgsEdge
ConfigWithdrawAmounts == {50, 100}

NextConfig ==
    \/ createBounty(CREATOR, "owner/repo", 1, IssueUrl, 100, 150, 0)
    \/ \E c \in Callers, a \in ConfigArgsAll :
          updateConfig(c, a[1], a[2], a[3], a[4])
    \/ \E c \in Callers : pause(c)
    \/ \E c \in Callers : unpause(c)
    \/ \E c \in Callers, t \in AtomicTokens, a \in ConfigWithdrawAmounts :
          emergencyWithdraw(c, t, a)

SpecConfig == Init /\ [][NextConfig]_vars

\* ------------------------------------------- calls suspended in a transfer
\* The escrow hands control to a token contract in every safeTransfer and
\* safeTransferFrom.  A call is split at that point: it enters (checks and
\* storage writes), the token or a party to the transfer may call back into
\* the escrow, and the transfer returns (tokens move, or the whole
\* transaction, callbacks included, is rolled back).
nonReentrant ==
    {"createBounty", "escalateBounty", "releaseBounty", "cancelBounty",
     "claimExpiredBounty"}

\* ReentrancyGuard._nonReentrantBefore: "" when the call may proceed
reentrantCallError(fn) ==
    IF fn \in nonReentrant /\ reentrancyStatus = "ENTERED"
    THEN "ReentrancyGuardReentrantCall"
    ELSE ""

\* what a revert of the suspended transaction restores
ledgerSnapshot ==
    [bounties |-> bounties, nextBountyId |-> nextBountyId,
     issueToBountyId |-> issueToBountyId,
     creatorBounties |-> creatorBounties, solverBounties |-> solverBounties,
     minBountyAmount |-> minBountyAmount, maxBountyAmount |-> maxBountyAmount,
     platformFeeBps |-> platformFeeBps, feeRecipient |-> feeRecipient,
     paused |-> paused, balance |-> balance, otherBalance |-> otherBalance,
     exits |-> exits, outflow |-> outflow]

\* the call `fn` has written its state and called the token; transfers are
\* <<from, to, amount>> in the order the code makes them
Suspend(fn, token, bountyId, transfers) ==
    /\ callStack = NoCall
    /\ callStack' = [fn |-> fn, token |-> token, bountyId |-> bountyId,
                     transfers |-> transfers, saved |-> ledgerSnapshot]
    /\ reentrancyStatus' =
           IF fn \in nonReentrant THEN "ENTERED" ELSE reentrancyStatus
    /\ UNCHANGED <<railVars, lockingCall,
                   USE_BLOCKCHAIN, useBlockchain, initialized, ethBalance,
                   payments, rows, roles, approved, now, balance,
                   otherBalance, exits, outflow>>

createBountyEnter(caller, repository, issueId, issueUrl, amount, maxAmount, expiresAt) ==
    LET bountyId == nextBountyId
    IN  /\ nextBountyId <= MaxBounties
        /\ createError(caller, repository, issueId, amount, maxAmount,
                       expiresAt) = ""
        /\ nextBountyId' = nextBountyId + 1
        /\ bounties' = Append(bounties,
               [id |-> bountyId, creator |-> caller,
                initialAmount |-> amount, currentAmount |-> amount,
                maxAmount |-> maxAmount, repository |-> repository,
                issueId |-> issueId, issueUrl |-> issueUrl,
                status |-> "Active", solver |-> ZERO,
                solverGithubLogin |-> "", pullRequestUrl |-> "",
                createdAt |-> now, claimedAt |-> 0,
                expiresAt |-> expiresAt, escalationCount |-> 0])
        /\ issueToBountyId' =
               [issueToBountyId EXCEPT
                    ![issueHash(repository, issueId)] = bountyId]
        /\ creatorBounties' =
               [creatorBounties EXCEPT ![caller] = Append(@, bountyId)]
        /\ Suspend("createBounty", MNEE_TOKEN, bountyId,
                   << <<caller, ESCROW, amount>> >>)
        /\ UNCHANGED <<solverBounties, minBountyAmount, maxBountyAmount,
                       platformFeeBps, feeRecipient, paused>>

\* a top-up of 0 makes no token call and is never suspended
escalateBountyEnter(caller, bountyId, additionalAmount) ==
    LET bounty == Bounty(bountyId)
    IN  /\ bounty.escalationCount < MaxEscalations
        /\ additionalAmount > 0
        /\ escalateError(caller, bountyId, additionalAmount) = ""
        /\ bounties' =
               [bounties EXCEPT
                    ![bountyId].currentAmount = @ + additionalAmount,
                    ![bountyId].escalationCount = @ + 1]
        /\ Suspend("escalateBounty", MNEE_TOKEN, bountyId,
                   << <<caller, ESCROW, additionalAmount>> >>)
        /\ UNCHANGED <<nextBountyId, issueToBountyId, creatorBounties,
                       solverBounties, minBountyAmount, maxBountyAmount,
                       platformFeeBps, feeRecipient, paused>>

releaseBountyEnter(caller, bountyId, solver, solverGithubLogin, pullRequestUrl) ==
    LET bounty == Bounty(bountyId)
        platformFee == platformFeeOf(bounty.currentAmount)
        solverAmount == bounty.currentAmount - platformFee
    IN  /\ releaseError(caller, bountyId, solver) = ""
        /\ bounties' =
               [bounties EXCEPT
                    ![bountyId].status = "Claimed",
                    ![bountyId].solver = solver,
                    ![bountyId].solverGithubLogin = solverGithubLogin,
                    ![bountyId].pullRequestUrl = pullRequestUrl,
                    ![bountyId].claimedAt = now]
        /\ solverBounties' =
               [solverBounties EXCEPT ![solver] = Append(@, bountyId)]
        /\ Suspend("releaseBounty", MNEE_TOKEN, bountyId,
                   IF feeIsPaid(platformFee)
                   THEN << <<ESCROW, solver, solverAmount>>,
                           <<ESCROW, feeRecipient, platformFee>> >>
                   ELSE << <<ESCROW, solver, solverAmount>> >>)
        /\ UNCHANGED <<nextBountyId, issueToBountyId, creatorBounties,
                       minBountyAmount, maxBountyAmount, platformFeeBps,
                       feeRecipient, paused>>

RefundEnter(fn, bountyId, status) ==
    LET bounty == Bounty(bountyId)
    IN  /\ bounties' = [bounties EXCEPT ![bountyId].status = status]
        /\ Suspend(fn, MNEE_TOKEN, bountyId,
                   << <<ESCROW, bounty.creator, bounty.currentAmount>> >>)
        /\ UNCHANGED <<nextBountyId, issueToBountyId, creatorBounties,
                       solverBounties, minBountyAmount, maxBountyAmount,
                       platformFeeBps, feeRecipient, paused>>

cancelBountyEnter(caller, bountyId) ==
    /\ cancelError(caller, bountyId) = ""
    /\ RefundEnter("cancelBounty", bountyId, "Cancelled")

claimExpiredBountyEnter(caller, bountyId) ==
    /\ claimExpiredError(caller, bountyId) = ""
    /\ RefundEnter("claimExpiredBounty", bountyId, "Expired")

emergencyWithdrawEnter(caller, token, amount) ==
    /\ emergencyWithdrawError(caller, token, amount) = ""
    /\ Suspend("emergencyWithdraw", token, 0, << <<ESCROW, caller, amount>> >>)
    /\ UNCHANGED <<bounties, nextBountyId, issueToBountyId, creatorBounties,
                   solverBounties, minBountyAmount, maxBountyAmount,
                   platformFeeBps, feeRecipient, paused>>

\* who can run code while the transfer is under way: the token contract and
\* the parties it notifies
CallbackPrincipals ==
    IF callStack = NoCall THEN {}
    ELSE ({callStack.token} \cup
          {callStack.transfers[i][1] : i \in DOMAIN callStack.transfers} \cup
          {callStack.transfers[i][2] : i \in DOMAIN callStack.transfers})
         \ {ESCROW}

\* a call of entry point `fn`, whose effect is `call`, made from a callback
Callback(fn, call) ==
    /\ callStack # NoCall
    /\ IF reentrantCallError(fn) # "" THEN Revert ELSE call

RECURSIVE transfersError(_, _)
transfersError(bal, transfers) ==
    IF transfers = <<>> THEN ""
    ELSE LET t == Head(transfers) IN
         IF bal[t[1]] < t[3] THEN "ERC20InsufficientBalance"
         ELSE transfersError(Move(bal, t[1], t[2], t[3]), Tail(transfers))

RECURSIVE applyTransfers(_, _)
applyTransfers(bal, transfers) ==
    IF transfers = <<>> THEN bal
    ELSE LET t == Head(transfers) IN
         applyTransfers(Move(bal, t[1], t[2], t[3]), Tail(transfers))

RECURSIVE transfersTotal(_)
transfersTotal(transfers) ==
    IF transfers = <<>> THEN 0
    ELSE Head(transfers)[3] + transfersTotal(Tail(transfers))

\* the token call returns: the tokens move and the suspended call ends, or
\* the token reverts and with it everything since the call entered
TransferReturns ==
    /\ callStack # NoCall
    /\ LET f == callStack
           bal == IF f.token = MNEE_TOKEN THEN balance ELSE otherBalance
           err == transfersError(bal, f.transfers)
           leaves == f.fn \in {"releaseBounty", "cancelBounty",
                               "claimExpiredBounty"}
       IN  IF err = ""
           THEN /\ balance' = IF f.token = MNEE_TOKEN
                              THEN applyTransfers(bal, f.transfers)
                              ELSE balance
                /\ otherBalance' = IF f.token = MNEE_TOKEN
                                   THEN otherBalance
                                   ELSE applyTransfers(bal, f.transfers)
                /\ exits' = IF leaves
                            THEN [exits EXCEPT ![f.bountyId] = @ + 1]
                            ELSE exits
                /\ outflow' = IF leaves
                              THEN [outflow EXCEPT ![f.bountyId] =
                                        @ + transfersTotal(f.transfers)]
                              ELSE outflow
                /\ UNCHANGED <<bounties, nextBountyId, issueToBountyId,
                               creatorBounties, solverBounties,
                               minBountyAmount, maxBountyAmount,
                               platformFeeBps, feeRecipient, paused>>
           ELSE /\ bounties' = f.saved.bounties
                /\ nextBountyId' = f.saved.nextBountyId
                /\ issueToBountyId' = f.saved.issueToBountyId
                /\ creatorBounties' = f.saved.creatorBounties
                /\ solverBounties' = f.saved.solverBounties
                /\ minBountyAmount' = f.saved.minBountyAmount
                /\ maxBountyAmount' = f.saved.maxBountyAmount
                /\ platformFeeBps' = f.saved.platformFeeBps
                /\ feeRecipient' = f.saved.feeRecipient
                /\ paused' = f.saved.paused
                /\ balance' = f.saved.balance
                /\ otherBalance' = f.saved.otherBalance
                /\ exits' = f.saved.exits
                /\ outflow' = f.saved.outflow
    /\ callStack' = NoCall
    /\ reentrancyStatus' = "NOT_ENTERED"
    /\ UNCHANGED <<railVars, lockingCall,
                   USE_BLOCKCHAIN, useBlockchain, initialized, ethBalance,
                   payments, rows, roles, approved, now>>

ReentryTokens == {MNEE_TOKEN, OTHER_TOKEN}
ReentryAmounts == {50}

NextReentry ==
    \/ \E e \in Expiries :
          createBountyEnter(CREATOR, "owner/repo", 1, IssueUrl, 100, 150, e)
    \/ \E c \in {CREATOR, ORACLE}, a \in ReentryAmounts :
          escalateBountyEnter(c, 1, a)
    \/ releaseBountyEnter(ORACLE, 1, SOLVER, SolverLogin, PullRequestUrl)
    \/ \E c \in {CREATOR, ADMIN} : cancelBountyEnter(c, 1)
    \/ \E c \in Callers : claimExpiredBountyEnter(c, 1)
    \/ \E t \in ReentryTokens, a \in ReentryAmounts :
          emergencyWithdrawEnter(ADMIN, t, a)
    \/ \E c \in CallbackPrincipals, e \in Expiries :
          Callback("createBounty",
                   createBounty(c, "owner/repo", 1, IssueUrl, 100, 150, e))
    \/ \E c \in CallbackPrincipals, a \in ReentryAmounts :
          /\ Bounty(1).escalationCount < MaxEscalations
          /\ Callback("escalateBounty", escalateBounty(c, 1, a))
    \/ \E c \in CallbackPrincipals :
          Callback("releaseBounty",
                   releaseBounty(c, 1, SOLVER, SolverLogin, PullRequestUrl))
    \/ \E c \in CallbackPrincipals :
          Callback("cancelBounty", cancelBounty(c, 1))
    \/ \E c \in CallbackPrincipals :
          Callback("claimExpiredBounty", claimExpiredBounty(c, 1))
    \/ \E c \in CallbackPrincipals, t \in ReentryTokens, a \in ReentryAmounts :
          Callback("emergencyWithdraw", emergencyWithdraw(c, t, a))
    \/ \E c \in CallbackPrincipals, a \in ConfigArgs :
          Callback("updateConfig", updateConfig(c, a[1], a[2], a[3], a[4]))
    \/ \E c \in CallbackPrincipals : Callback("pause", pause(c))
    \/ \E c \in CallbackPrincipals : Callback("unpause", unpause(c))
    \/ TransferReturns
    \/ callStack = NoCall /\ Tick

SpecReentry == Init /\ [][NextReentry]_vars

\* ---------------------------------------------------------- payment gateway
\* PaymentService in front of the two rails.  The bot's wallet is the
\* escrow's oracle; its MNEE is balance[ORACLE] and its gas is ethBalance.
EnvValues == {"true", "false", "TRUE", "undefined"}
WALLET == ORACLE
MinEthForGas == 10
GasCosts == {20, 25}
NOT_AN_ADDRESS == "1BitcoinStyleAddress"
Recipients == {SOLVER, ZERO, NOT_AN_ADDRESS}
PaymentAmounts == {0, 20, 100}
PaymentBountyIds == {1, 2}
ServiceFunds == 250
ServiceFee == 1

\* the rail process.env.USE_BLOCKCHAIN selects: only the string 'true' is
\* the custodial rail
selectedRail == IF USE_BLOCKCHAIN = "true" THEN ETHEREUM_RAIL ELSE MNEE_RAIL

\* PaymentService.initialize(); `railStarts` tells whether the selected
\* rail's own initialize() returns rather than throws.  useBlockchain and
\* the rail's service reference are assigned before that call; activeService
\* and initialized only after it has returned.
initialize(railStarts) ==
    /\ useBlockchain' = (USE_BLOCKCHAIN = "true")
    /\ ethereumService' =
           IF selectedRail = ETHEREUM_RAIL THEN ETHEREUM_RAIL
           ELSE ethereumService
    /\ mneeService' =
           IF selectedRail = MNEE_RAIL THEN MNEE_RAIL ELSE mneeService
    /\ serviceInitialized' =
           IF railStarts
           THEN [serviceInitialized EXCEPT ![selectedRail] = TRUE]
           ELSE serviceInitialized
    /\ activeService' = IF railStarts THEN selectedRail ELSE activeService
    /\ initialized' = IF railStarts THEN TRUE ELSE initialized
    /\ UNCHANGED <<ledgerVars, now, reentrancyStatus, callStack, lockingCall,
                   USE_BLOCKCHAIN, ethBalance, payments, rows>>

ensureInitializedError ==
    IF ~initialized THEN "Payment service not initialized" ELSE ""

\* railExclusive asking for initialization before it looks at the rail
railExclusive_InitFirst(onChain) ==
    IF ensureInitializedError # "" THEN "throw"
    ELSE IF ~useBlockchain THEN "null"
    ELSE onChain

\* what a blockchain-only operation gives back: null on the service rail,
\* an exception before initialization, else the ethereumService call's result
railExclusive(onChain) ==
    IF ~useBlockchain THEN "null"
    ELSE IF ensureInitializedError # "" THEN "throw"
    ELSE onChain

createOnChainBountyResult == railExclusive("ethereumService.createBounty")
escalateOnChainBountyResult == railExclusive("ethereumService.escalateBounty")
releaseOnChainBountyResult == railExclusive("ethereumService.releaseBounty")
getOnChainBountyResult == railExclusive("ethereumService.getBountyDetails")
getOnChainBountyByIssueResult ==
    railExclusive("ethereumService.getBountyByIssue")

\* on the custodial rail the wallet sends the escrow's releaseBounty
releaseOnChainBounty(onChainBountyId, solverAddress, solverGithubLogin, pullRequestUrl) ==
    IF releaseOnChainBountyResult # "ethereumService.releaseBounty"
    THEN UNCHANGED vars
    ELSE releaseBounty(WALLET, onChainBountyId, solverAddress,
                       solverGithubLogin, pullRequestUrl)

\* ethers.isAddress
isAddress(recipientAddress) == recipientAddress # NOT_AN_ADDRESS

\* EthereumPaymentService.sendPayment: "" when the transfer is confirmed.
\* gasEstimates: mneeToken.transfer.estimateGas returns; the token refuses
\* the zero address, and the node refuses a transaction the wallet cannot
\* pay the gas for.
\* ethereumSendPaymentError without the check of the wallet's MNEE
ethereumSendPaymentError_NoBalanceCheck(recipientAddress, amount, gasEstimates, gasCost) ==
    IF ~isAddress(recipientAddress) THEN "Invalid Ethereum address"
    ELSE IF ethBalance < MinEthForGas THEN "Insufficient ETH for gas"
    ELSE IF ~gasEstimates \/ recipientAddress = ZERO
        THEN "Gas estimation failed"
    ELSE IF ethBalance < gasCost THEN "insufficient funds"
    ELSE ""

ethereumSendPaymentError(recipientAddress, amount, gasEstimates, gasCost) ==
    IF ~isAddress(recipientAddress) THEN "Invalid Ethereum address"
    ELSE IF balance[WALLET] < amount THEN "Insufficient MNEE balance"
    ELSE IF ethBalance < MinEthForGas THEN "Insufficient ETH for gas"
    ELSE IF ~gasEstimates \/ recipientAddress = ZERO
        THEN "Gas estimation failed"
    ELSE IF ethBalance < gasCost THEN "insufficient funds"
    ELSE ""

ethereumSendPayment(recipientAddress, amount, bountyId, gasEstimates, gasCost) ==
    /\ Len(payments) < MaxPayments
    /\ IF ethereumSendPaymentError(recipientAddress, amount, gasEstimates,
                                   gasCost) # ""
       THEN UNCHANGED vars
       ELSE
         /\ balance' = Move(balance, WALLET, recipientAddress, amount)
         /\ ethBalance' = ethBalance - gasCost
         /\ payments' = Append(payments,
                [rail |-> "ethereum", recipient |-> recipientAddress,
                 amount |-> amount, bountyId |-> bountyId])
         /\ UNCHANGED <<bounties, nextBountyId, issueToBountyId,
                        creatorBounties, solverBounties, minBountyAmount,
                        maxBountyAmount, platformFeeBps, feeRecipient, roles,
                        paused, otherBalance, approved, exits, outflow, now,
                        reentrancyStatus, callStack, railVars, lockingCall,
                        USE_BLOCKCHAIN,
                        useBlockchain, initialized, rows>>

\* the service rail's wallet: what it started with less what it has sent
RECURSIVE serviceSpent(_)
serviceSpent(sent) ==
    IF sent = <<>> THEN 0
    ELSE (IF Head(sent).rail = "mnee"
          THEN Head(sent).amount + ServiceFee ELSE 0)
         + serviceSpent(Tail(sent))

serviceBalance == ServiceFunds - serviceSpent(payments)

\* the service rail's sendPayment: a direct value transfer after the checks
\* of balance and of fee headroom
mneeSendPaymentError(recipientAddress, amount) ==
    IF serviceBalance < amount THEN "InsufficientBalance"
    ELSE IF serviceBalance < amount + ServiceFee THEN "InsufficientFee"
    ELSE ""

mneeSendPayment(recipientAddress, amount, bountyId) ==
    /\ Len(payments) < MaxPayments
    /\ IF mneeSendPaymentError(recipientAddress, amount) # ""
       THEN UNCHANGED vars
       ELSE
         /\ payments' = Append(payments,
                [rail |-> "mnee", recipient |-> recipientAddress,
                 amount |-> amount, bountyId |-> bountyId])
         /\ UNCHANGED <<ledgerVars, now, reentrancyStatus, callStack,
                        railVars, lockingCall,
                        USE_BLOCKCHAIN, useBlockchain, initialized,
                        ethBalance, rows>>

\* PaymentService.sendPayment: the active rail's sendPayment
sendPayment(recipientAddress, amount, bountyId, gasEstimates, gasCost) ==
    IF ensureInitializedError # "" THEN UNCHANGED vars
    ELSE IF activeService = ETHEREUM_RAIL
        THEN ethereumSendPayment(recipientAddress, amount, bountyId,
                                 gasEstimates, gasCost)
    ELSE mneeSendPayment(recipientAddress, amount, bountyId)

\* EthereumPaymentService.calculateFee: (amount * feeBps) / 10000 in
\* floating point, which does not round to a whole number; the quotient is
\* kept as a fraction, amounts counted in the ledger's units
ethereumCalculateFee(amount) ==
    [num |-> amount * platformFeeBps, den |-> BpsDenominator]

\* PaymentService.calculateFee on the custodial rail
calculateFee(amount) ==
    IF ensureInitializedError # "" THEN [num |-> 0, den |-> 0]
    ELSE ethereumCalculateFee(amount)

\* the fee the gateway quotes is the whole number `fee`
quoteIs(quote, fee) == quote.den # 0 /\ quote.num = fee * quote.den

\* payouts made for bounty `bountyId`: direct payments on the service rail
\* plus the escrow's release
payoutsOf(bountyId) ==
    Cardinality({i \in DOMAIN payments :
                    /\ payments[i].rail = "mnee"
                    /\ payments[i].bountyId = bountyId})
    + (IF Bounty(bountyId).status = "Claimed" THEN 1 ELSE 0)

InitGateway == InitLedger /\ \E env \in EnvValues : InitOffLedgerIn(env)

NextGateway ==
    \/ \E railStarts \in BOOLEAN : initialize(railStarts)
    \/ createBounty(CREATOR, "owner/repo", 1, IssueUrl, 100, 150, 0)
    \/ \E b \in PaymentBountyIds, s \in Solvers :
          releaseOnChainBounty(b, s, SolverLogin, PullRequestUrl)
    \/ \E r \in Recipients, a \in PaymentAmounts, b \in PaymentBountyIds,
          g \in BOOLEAN, c \in GasCosts :
          sendPayment(r, a, b, g, c)

SpecGateway == InitGateway /\ [][NextGateway]_vars

\* --------------------------------------------- fee quotes against releases
\* one Active bounty of every amount under every fee rate, released through
\* the gateway on the custodial rail
NextQuote ==
    \/ \E railStarts \in BOOLEAN : initialize(railStarts)
    \/ \E s \in Solvers :
          releaseOnChainBounty(1, s, SolverLogin, PullRequestUrl)

SpecQuote == InitFee /\ [][NextQuote]_vars

\* ------------------------------------------------- gateway locking calls
\* EthereumPaymentService.createBounty and escalateBounty: the wallet's
\* allowance is looked at, an approval is sent and awaited where it falls
\* short, and only then the escrow's locking transaction is sent.  Each await
\* is a step of its own, so other transactions can land in between.  One
\* call is followed at a time.
LockAmounts == {20, 60}
LockEscalations == {0, 20}

\* mneeToken.allowance(wallet, escrow) >= amount
allowanceCovers(holder, amount) == amount = 0 \/ holder \in approved

lockingCallRunning == lockingCall.pc \in {"ensureAllowance", "submit"}

\* the call has passed the service's own initialized check and converted its
\* amount; ensureAllowance is skipped by an escalation that adds nothing
StartLockingCall(fn, args, amount) ==
    /\ ~lockingCallRunning
    /\ lockingCall' =
           [fn |-> fn,
            pc |-> IF fn = "escalateBounty" /\ ~(amount > 0)
                   THEN "submit" ELSE "ensureAllowance",
            args |-> args, amount |-> amount, approvedByCall |-> FALSE]
    /\ UNCHANGED <<ledgerVars, now, reentrancyStatus, callStack,
                   USE_BLOCKCHAIN, useBlockchain, initialized, ethBalance,
                   payments, rows, railVars>>

ethereumServiceError ==
    IF ~serviceInitialized[ETHEREUM_RAIL]
    THEN "Ethereum payment service not initialized" ELSE ""

ethereumCreateBounty(repository, issueId, issueUrl, amount, maxAmount, expiresAt) ==
    IF ethereumServiceError # "" THEN UNCHANGED vars
    ELSE StartLockingCall("createBounty",
             <<repository, issueId, issueUrl, amount, maxAmount, expiresAt>>,
             amount)

ethereumEscalateBounty(bountyId, additionalAmount) ==
    IF ethereumServiceError # "" THEN UNCHANGED vars
    ELSE StartLockingCall("escalateBounty", <<bountyId, additionalAmount>>,
                          additionalAmount)

\* PaymentService.createOnChainBounty / escalateOnChainBounty
createOnChainBounty(repository, issueId, issueUrl, amount, maxAmount, expiresAt) ==
    IF createOnChainBountyResult # "ethereumService.createBounty"
    THEN UNCHANGED vars
    ELSE ethereumCreateBounty(repository, issueId, issueUrl, amount,
                              maxAmount, expiresAt)

escalateOnChainBounty(onChainBountyId, additionalAmount) ==
    IF escalateOnChainBountyResult # "ethereumService.escalateBounty"
    THEN UNCHANGED vars
    ELSE ethereumEscalateBounty(onChainBountyId, additionalAmount)

\* the call throws: its catch block logs and rethrows
LockingCallThrows == lockingCall' = [lockingCall EXCEPT !.pc = "thrown"]

\* ensureAllowance going on to the locking transaction whatever became of
\* the approval
ensureAllowance_NoWait(allowanceReads, approvalConfirmed) ==
    /\ lockingCall.pc = "ensureAllowance"
    /\ lockingCall' = [lockingCall EXCEPT !.pc = "submit"]
    /\ UNCHANGED <<ledgerVars, now, reentrancyStatus, callStack,
                   USE_BLOCKCHAIN, useBlockchain, initialized, ethBalance,
                   payments, rows, railVars>>

\* ensureAllowance(amount).  allowanceReads: the allowance query answers;
\* approvalConfirmed: approve(escrow, MaxUint256) is mined and tx.wait()
\* returns.  Either failing throws out of the call.
ensureAllowance(allowanceReads, approvalConfirmed) ==
    /\ lockingCall.pc = "ensureAllowance"
    /\ IF ~allowanceReads
       THEN LockingCallThrows /\ approved' = approved
       ELSE IF allowanceCovers(WALLET, lockingCall.amount)
       THEN /\ lockingCall' = [lockingCall EXCEPT !.pc = "submit"]
            /\ approved' = approved
       ELSE IF approvalConfirmed
       THEN /\ approved' = approved \cup {WALLET}
            /\ lockingCall' = [lockingCall EXCEPT !.pc = "submit",
                                                  !.approvedByCall = TRUE]
       ELSE LockingCallThrows /\ approved' = approved
    /\ UNCHANGED <<bounties, nextBountyId, issueToBountyId, creatorBounties,
                   solverBounties, minBountyAmount, maxBountyAmount,
                   platformFeeBps, feeRecipient, roles, paused, balance,
                   otherBalance, exits, outflow, now, reentrancyStatus,
                   callStack, USE_BLOCKCHAIN, useBlockchain, initialized,
                   ethBalance, payments, rows, railVars>>

\* what the escrow answers to the locking transaction the wallet sends
lockingTxError ==
    LET a == lockingCall.args IN
    IF lockingCall.fn = "createBounty"
    THEN createError(WALLET, a[1], a[2], a[4], a[5], a[6])
    ELSE escalateError(WALLET, a[1], a[2])

\* escrowContract.createBounty(...) / escalateBounty(...) and tx.wait(): the
\* transaction the wallet sends is the ledger's createBounty or
\* escalateBounty with the wallet as caller; a revert throws out of the call
submitLockingTx ==
    LET a == lockingCall.args
        bountyId == nextBountyId
    IN
    /\ lockingCall.pc = "submit"
    /\ IF lockingTxError # ""
       THEN /\ LockingCallThrows
            /\ UNCHANGED ledgerVars
       ELSE /\ lockingCall' = [lockingCall EXCEPT !.pc = "returned"]
            /\ IF lockingCall.fn = "createBounty"
               THEN /\ nextBountyId <= MaxBounties
                    /\ nextBountyId' = nextBountyId + 1
                    /\ bounties' = Append(bounties,
                           [id |-> bountyId, creator |-> WALLET,
                            initialAmount |-> a[4], currentAmount |-> a[4],
                            maxAmount |-> a[5], repository |-> a[1],
                            issueId |-> a[2], issueUrl |-> a[3],
                            status |-> "Active", solver |-> ZERO,
                            solverGithubLogin |-> "", pullRequestUrl |-> "",
                            createdAt |-> now, claimedAt |-> 0,
                            expiresAt |-> a[6], escalationCount |-> 0])
                    /\ issueToBountyId' =
                           [issueToBountyId EXCEPT
                                ![issueHash(a[1], a[2])] = bountyId]
                    /\ creatorBounties' =
                           [creatorBounties EXCEPT
                                ![WALLET] = Append(@, bountyId)]
                    /\ balance' = Move(balance, WALLET, ESCROW, a[4])
               ELSE /\ Bounty(a[1]).escalationCount < MaxEscalations
                    /\ bounties' =
                           [bounties EXCEPT
                                ![a[1]].currentAmount = @ + a[2],
                                ![a[1]].escalationCount = @ + 1]
                    /\ balance' = Move(balance, WALLET, ESCROW, a[2])
                    /\ UNCHANGED <<nextBountyId, issueToBountyId,
                                   creatorBounties>>
            /\ UNCHANGED <<solverBounties, minBountyAmount, maxBountyAmount,
                           platformFeeBps, feeRecipient, roles, paused,
                           otherBalance, approved, exits, outflow>>
    /\ UNCHANGED <<now, reentrancyStatus, callStack, USE_BLOCKCHAIN,
                   useBlockchain, initialized, ethBalance, payments, rows,
                   railVars>>

\* the wallet starts with or without a standing approval; the creator's
\* bounty on issue 1 and the admin's pause are what can make the locking
\* transaction revert
InitLock ==
    /\ \E holders \in {{CREATOR}, {CREATOR, WALLET}} :
           InitLedgerApproving(holders)
    /\ InitOffLedger

NextLock ==
    \/ \E railStarts \in BOOLEAN : initialize(railStarts)
    \/ \E i \in IssueIds, a \in LockAmounts :
          createOnChainBounty("owner/repo", i, IssueUrl, a, a, 0)
    \/ \E b \in BountyIds, a \in LockEscalations :
          escalateOnChainBounty(b, a)
    \/ \E r \in BOOLEAN, c \in BOOLEAN : ensureAllowance(r, c)
    \/ submitLockingTx
    \/ createBounty(CREATOR, "owner/repo", 1, IssueUrl, 100, 150, 0)
    \/ pause(ADMIN)
    \/ unpause(ADMIN)

SpecLock == InitLock /\ [][NextLock]_vars

\* ------------------------------------------------ the escalation counter
\* one bounty escalated again and again by its creator and by the oracle,
\* with and without funds; nothing here stops the count short of the
\* counter's width
CountEscalators == {CREATOR, ORACLE}
CountEscalations == {0, 50}

NextCount ==
    \/ createBounty(CREATOR, "owner/repo", 1, IssueUrl, 100, 150, 0)
    \/ \E c \in CountEscalators, a \in CountEscalations :
          escalateBounty(c, 1, a)

SpecCount == Init /\ [][NextCount]_vars

\* ------------------------------------------------ bounties across their expiry
\* the creator's bounty on one issue, with and without expiry, under every
\* call of every caller while time passes
ExpiryEscalations == {0, 50}

NextExpiry ==
    \/ \E e \in Expiries :
          createBounty(CREATOR, "owner/repo", 1, IssueUrl, 100, 150, e)
    \/ \E c \in Callers, a \in ExpiryEscalations :
          /\ Bounty(1).escalationCount < MaxEscalations
          /\ escalateBounty(c, 1, a)
    \/ \E c \in Callers, s \in Solvers :
          releaseBounty(c, 1, s, SolverLogin, PullRequestUrl)
    \/ \E c \in Callers : cancelBounty(c, 1)
    \/ \E c \in Callers : claimExpiredBounty(c, 1)
    \/ pause(ADMIN)
    \/ unpause(ADMIN)
    \/ Tick

SpecExpiry == Init /\ [][NextExpiry]_vars

\* ------------------------------------------ bounties outliving their settings
\* <<min, max, feeBps, feeRecipient>>: the defaults, then a maximum below the
\* bounty's cap with a tenfold fee to two recipients, then no fee at all
ReconfigArgs ==
    {<<1, 1000000, 250, FEE>>, <<1, 120, 1000, FEE>>,
     <<1, 120, 1000, ADMIN>>, <<1, 1000000, 0, ZERO>>}
ReconfigEscalations == {0, 50}

NextReconfig ==
    \/ createBounty(CREATOR, "owner/repo", 1, IssueUrl, 100, 150, 0)
    \/ \E a \in ReconfigArgs : updateConfig(ADMIN, a[1], a[2], a[3], a[4])
    \/ \E c \in Callers : pause(c)
    \/ \E c \in Callers : unpause(c)
    \/ \E c \in {CREATOR, ORACLE}, a \in ReconfigEscalations :
          /\ Bounty(1).escalationCount < MaxEscalations
          /\ escalateBounty(c, 1, a)
    \/ releaseBounty(ORACLE, 1, SOLVER, SolverLogin, PullRequestUrl)

SpecReconfig == Init /\ [][NextReconfig]_vars

\* ------------------------------------------------------- ids and indexes
\* bounties of two creators on two issues, created, released, cancelled and
\* swept in every order while time passes
IndexCreators == {CREATOR, ORACLE}
IndexAmount == 50

NextIndex ==
    \/ \E c \in IndexCreators, i \in IssueIds, e \in Expiries :
          createBounty(c, "owner/repo", i, IssueUrl, IndexAmount,
                       IndexAmount, e)
    \/ \E b \in BountyIds, s \in Solvers :
          releaseBounty(ORACLE, b, s, SolverLogin, PullRequestUrl)
    \/ \E c \in Callers, b \in BountyIds : cancelBounty(c, b)
    \/ \E b \in BountyIds : claimExpiredBounty(SOLVER, b)
    \/ Tick

SpecIndex == Init /\ [][NextIndex]_vars

\* --------------------------------------------------- the gateway's rails
\* the process's environment is rewritten between two initialize calls
setEnv(value) ==
    /\ USE_BLOCKCHAIN' = value
    /\ UNCHANGED <<ledgerVars, now, reentrancyStatus, callStack, useBlockchain,
                   initialized, ethBalance, payments, rows, railVars,
                   lockingCall>>

RailAgnosticOps == {"getBalance", "sendPayment", "validateAddress",
                    "calculateFee"}

\* the service a rail-agnostic operation calls: getBalance and sendPayment go
\* to activeService, validateAddress and calculateFee pick the service
\* reference by useBlockchain; all four ask for initialization first
serviceReached(op) ==
    IF ensureInitializedError # "" THEN "throw"
    ELSE IF op \in {"getBalance", "sendPayment"} THEN activeService
    ELSE IF useBlockchain THEN ethereumService
    ELSE mneeService

NextRail ==
    \/ \E v \in EnvValues : setEnv(v)
    \/ \E railStarts \in BOOLEAN : initialize(railStarts)
    \/ \E r \in {SOLVER, NOT_AN_ADDRESS}, b \in PaymentBountyIds :
          sendPayment(r, 20, b, TRUE, 20)

SpecRail == InitGateway /\ [][NextRail]_vars

\* ------------------------------------------------------------ bounties table
\* The table as its schema defines it: what an INSERT and an UPDATE of status
\* are held to.  A row is kept as <<bounty_id, repository, issue_id, status>>;
\* the serial id is a surrogate and the other columns carry no constraint
\* beyond NOT NULL.
MaxRows == 3
RowBountyIds == 1..MaxRows
RowStatuses == {"active", "claimed", "cancelled", "expired"}
NonTerminalRowStatuses == {"active"}

\* bounty_id INTEGER UNIQUE NOT NULL is the table's only uniqueness
\* constraint besides the primary key; its four indexes are not unique
insertError(bounty_id, repository, issue_id) ==
    IF \E r \in rows : r.bounty_id = bounty_id
    THEN "duplicate key value violates unique constraint"
    ELSE ""

\* INSERT INTO bounties: status takes its default, 'active'
insertBounty(bounty_id, repository, issue_id) ==
    /\ IF insertError(bounty_id, repository, issue_id) # ""
       THEN rows' = rows
       ELSE rows' = rows \cup
                {[bounty_id |-> bounty_id, repository |-> repository,
                  issue_id |-> issue_id, status |-> "active"]}
    /\ UNCHANGED <<ledgerVars, now, reentrancyStatus, callStack,
                   railVars, lockingCall,
                   USE_BLOCKCHAIN, useBlockchain, initialized, ethBalance,
                   payments>>

\* UPDATE bounties SET status = ... WHERE bounty_id = ...
updateStatus(bounty_id, status) ==
    /\ rows' = {IF r.bounty_id = bounty_id
                THEN [r EXCEPT !.status = status] ELSE r : r \in rows}
    /\ UNCHANGED <<ledgerVars, now, reentrancyStatus, callStack,
                   railVars, lockingCall,
                   USE_BLOCKCHAIN, useBlockchain, initialized, ethBalance,
                   payments>>

NextStore ==
    \/ \E b \in RowBountyIds, k \in IssueKeys : insertBounty(b, k[1], k[2])
    \/ \E b \in RowBountyIds, s \in RowStatuses : updateStatus(b, s)

SpecStore == Init /\ [][NextStore]_vars

\* ================================================================== claims
Terminal == {"Claimed", "Cancelled", "Expired"}

RECURSIVE SumActive(_)
SumActive(n) ==
    IF n = 0 THEN 0
    ELSE (IF bounties[n].status = "Active" THEN bounties[n].currentAmount
          ELSE 0) + SumActive(n - 1)

\* the sum of currentAmount over the Active bounties
ActiveTotal == SumActive(Len(bounties))

\* C1: the escrow's MNEE balance equals the sum of currentAmount over the
\* Active bounties, after every transaction.
C1_CustodyInvariant == balance[ESCROW] = ActiveTotal

\* C2: releaseBounty succeeds at most once per bounty.  Once a bounty is
\* Claimed, every releaseBounty call on it, whoever calls and whatever the
\* solver, is rejected; a call that passes the role, pause and solver checks,
\* which the code makes first, is rejected with BountyNotActive; and no later
\* step changes the bounty's record or pays anything more on its behalf.
C2_NoDoubleRelease ==
    /\ [](\A b \in DOMAIN bounties :
            /\ exits[b] <= 1
            /\ bounties[b].status = "Claimed" =>
                 \A c \in Callers, s \in Solvers :
                    /\ releaseError(c, b, s) # ""
                    /\ (hasRole(ORACLE_ROLE, c) /\ ~paused /\ s # ZERO)
                         => releaseError(c, b, s) = "BountyNotActive")
    /\ [][\A b \in DOMAIN bounties :
            bounties[b].status = "Claimed" =>
               /\ bounties'[b] = bounties[b]
               /\ exits'[b] = exits[b]
               /\ outflow'[b] = outflow[b]]_vars

\* a released bounty on which the oracle's next release is answered NotActive
C2_Witness ==
    \E b \in DOMAIN bounties :
        /\ bounties[b].status = "Claimed"
        /\ exits[b] = 1
        /\ balance[ESCROW] >= bounties[b].currentAmount
        /\ releaseError(ORACLE, b, SOLVER) = "BountyNotActive"

\* C3: a bounty's status changes only from Active to Claimed, Cancelled or
\* Expired, and a bounty record is never removed; so a terminal status never
\* changes again, whoever acts.
C3_MonotonicStatus ==
    [][\A b \in DOMAIN bounties :
          /\ b \in DOMAIN bounties'
          /\ bounties'[b].status # bounties[b].status =>
                /\ bounties[b].status = "Active"
                /\ bounties'[b].status \in Terminal]_vars

\* both bounties terminal, by different transitions, with funds still held
C3_Witness ==
    /\ Len(bounties) = 2
    /\ bounties[1].status \in Terminal
    /\ bounties[2].status \in Terminal
    /\ bounties[1].status # bounties[2].status

\* C4: of the releaseBounty, cancelBounty and claimExpiredBounty requests
\* racing for one Active bounty (transactions execute one at a time, in any
\* order) exactly one succeeds: the first valid one goes through, no second
\* terminal transition follows, and the bounty's whole currentAmount has left
\* custody once the bounty is terminal.
C4_ExactlyOneWins ==
    \A b \in DOMAIN bounties :
        /\ exits[b] <= 1
        /\ bounties[b].status \in Terminal =>
              /\ exits[b] = 1
              /\ outflow[b] = bounties[b].currentAmount
        /\ bounties[b].status = "Active" =>
              /\ cancelError(bounties[b].creator, b) = ""
              /\ ~paused => releaseError(ORACLE, b, SOLVER) = ""
              /\ (bounties[b].expiresAt # 0 /\ now >= bounties[b].expiresAt)
                    => \A c \in Callers : claimExpiredError(c, b) = ""

\* C5: every step that lowers the escrow's MNEE balance moves exactly one
\* bounty from Active to a terminal status and lowers the balance by that
\* bounty's currentAmount.
C5_DebitMatchesTransition ==
    [][balance'[ESCROW] < balance[ESCROW] =>
          \E b \in DOMAIN bounties :
             /\ bounties[b].status = "Active"
             /\ bounties'[b].status \in Terminal
             /\ balance[ESCROW] - balance'[ESCROW] = bounties[b].currentAmount
             /\ \A o \in DOMAIN bounties \ {b} :
                   bounties'[o].status = bounties[o].status]_vars

\* C6: in every reachable state cancelBounty called by the creator of an
\* Active bounty goes through (and so refunds the creator currentAmount).
C6_CreatorCanAlwaysCancel ==
    \A b \in DOMAIN bounties :
        bounties[b].status = "Active"
           => cancelError(bounties[b].creator, b) = ""

\* C7: while paused, createBounty, escalateBounty and releaseBounty are
\* rejected for every caller and no bounty is created, topped up or claimed;
\* not paused, none of them is rejected for the pause; cancelBounty and
\* claimExpiredBounty go through under conditions that do not mention the
\* pause.
C7_PauseGatesThree ==
    /\ [](\A c \in Callers :
            /\ paused =>
                 /\ \A r \in Repositories, i \in IssueIds, a \in CreateArgs,
                       e \in Expiries :
                       createError(c, r, i, a[1], a[2], e) # ""
                 /\ \A b \in BountyIds, x \in EscalateAmounts :
                       escalateError(c, b, x) # ""
                 /\ \A b \in BountyIds, s \in Solvers :
                       releaseError(c, b, s) # ""
            /\ ~paused =>
                 /\ \A r \in Repositories, i \in IssueIds, a \in CreateArgs,
                       e \in Expiries :
                       createError(c, r, i, a[1], a[2], e) # "EnforcedPause"
                 /\ \A b \in BountyIds, x \in EscalateAmounts :
                       escalateError(c, b, x) # "EnforcedPause"
                 /\ \A b \in BountyIds, s \in Solvers :
                       releaseError(c, b, s) # "EnforcedPause"
            /\ \A b \in BountyIds :
                 /\ cancelError(c, b) = "" <=>
                       /\ b \in DOMAIN bounties
                       /\ bounties[b].status = "Active"
                       /\ (bounties[b].creator = c \/ hasRole(ADMIN_ROLE, c))
                       /\ balance[ESCROW] >= bounties[b].currentAmount
                 /\ claimExpiredError(c, b) = "" <=>
                       /\ b \in DOMAIN bounties
                       /\ bounties[b].status = "Active"
                       /\ bounties[b].expiresAt # 0
                       /\ now >= bounties[b].expiresAt
                       /\ balance[ESCROW] >= bounties[b].currentAmount)
    /\ [][paused =>
            /\ Len(bounties') = Len(bounties)
            /\ \A b \in DOMAIN bounties :
                  /\ bounties'[b].currentAmount = bounties[b].currentAmount
                  /\ bounties'[b].escalationCount = bounties[b].escalationCount
                  /\ bounties'[b].status = "Claimed"
                        => bounties[b].status = "Claimed"]_vars

\* paused, with an Active bounty its creator can cancel while the oracle's
\* release and the creator's top-up are refused for the pause
C7_Witness ==
    /\ paused
    /\ \E b \in DOMAIN bounties :
          /\ bounties[b].status = "Active"
          /\ cancelError(bounties[b].creator, b) = ""
          /\ releaseError(ORACLE, b, SOLVER) = "EnforcedPause"
          /\ escalateError(bounties[b].creator, b, 50) = "EnforcedPause"

\* C8: after a successful releaseBounty of a bounty of amount A under rate r,
\* the fee recipient holds fee and the solver holds payout, where fee is the
\* floor of A*r/10000 (fee*10000 <= A*r < (fee+1)*10000) and
\* payout = A - fee; A = 150, r = 250 gives 3 and 147.
C8_FeeMath ==
    bounties[1].status = "Claimed" =>
        LET A == bounties[1].currentAmount
            r == platformFeeBps
            fee == balance[FEE]
            payout == balance[bounties[1].solver]
        IN  /\ fee * 10000 <= A * r
            /\ A * r < (fee + 1) * 10000
            /\ payout = A - fee
            /\ payout + fee = A
            /\ balance[ESCROW] = 0
            /\ (A = 150 /\ r = 250) => (fee = 3 /\ payout = 147)

C8_Witness ==
    /\ bounties[1].status = "Claimed"
    /\ bounties[1].currentAmount = 150
    /\ platformFeeBps = 250
    /\ balance[SOLVER] = 147
    /\ balance[FEE] = 3

\* C9: the step in which a bounty becomes Claimed takes exactly its
\* currentAmount out of custody, whatever fee recipient is configured.
C9_ReleaseSettlesCurrentAmount ==
    [][\A b \in DOMAIN bounties :
          (bounties[b].status = "Active" /\ bounties'[b].status = "Claimed")
             => balance[ESCROW] - balance'[ESCROW] = bounties[b].currentAmount
      ]_vars

\* C10: currentAmount never exceeds maxAmount; an escalateBounty call whose
\* top-up would pass the cap is rejected, and when the call passes the pause,
\* existence, status and caller checks, which the code makes first, the
\* rejection is MaxAmountExceeded; no step takes a bounty's amount past the
\* cap it had before the step, and none moves the cap.
C10_CapRespected ==
    /\ [](\A b \in DOMAIN bounties :
            /\ bounties[b].currentAmount <= bounties[b].maxAmount
            /\ \A c \in Callers, a \in EscalateAmountsWide \cup EscalateAmounts :
                 bounties[b].currentAmount + a > bounties[b].maxAmount =>
                    /\ escalateError(c, b, a) # ""
                    /\ (/\ ~paused
                        /\ bounties[b].status = "Active"
                        /\ (bounties[b].creator = c \/ hasRole(ORACLE_ROLE, c)))
                          => escalateError(c, b, a) = "MaxAmountExceeded")
    /\ [][\A b \in DOMAIN bounties :
            /\ bounties'[b].currentAmount <= bounties[b].maxAmount
            /\ bounties'[b].maxAmount = bounties[b].maxAmount]_vars

\* a bounty topped up twice, to its cap, whose creator's next top-up is
\* answered MaxAmountExceeded
C10_Witness ==
    \E b \in DOMAIN bounties :
        /\ bounties[b].status = "Active"
        /\ bounties[b].escalationCount = 2
        /\ bounties[b].currentAmount = bounties[b].maxAmount
        /\ bounties[b].currentAmount > bounties[b].initialAmount
        /\ escalateError(bounties[b].creator, b, 25) = "MaxAmountExceeded"

\* C11: for every bounty initialAmount <= currentAmount <= maxAmount; no step
\* lowers a bounty's currentAmount (the terminal transitions leave it as it
\* was) and none changes its initialAmount or maxAmount.
C11_AmountsOrdered ==
    /\ [](\A b \in DOMAIN bounties :
            /\ bounties[b].initialAmount <= bounties[b].currentAmount
            /\ bounties[b].currentAmount <= bounties[b].maxAmount)
    /\ [][\A b \in DOMAIN bounties :
            /\ bounties'[b].currentAmount >= bounties[b].currentAmount
            /\ bounties[b].status # "Active"
                  => bounties'[b].currentAmount = bounties[b].currentAmount
            /\ bounties'[b].initialAmount = bounties[b].initialAmount
            /\ bounties'[b].maxAmount = bounties[b].maxAmount]_vars

\* a topped-up bounty that is terminal and
\* still records the topped-up amount
C11_Witness ==
    \E b \in DOMAIN bounties :
        /\ bounties[b].status \in {"Cancelled", "Expired"}
        /\ bounties[b].escalationCount > 0
        /\ bounties[b].currentAmount > bounties[b].initialAmount
        /\ outflow[b] = bounties[b].currentAmount

\* the amounts, cap and expiry pass the checks createBounty makes before it
\* looks the issue up
createArgsAccepted(amount, maxAmount, expiresAt) ==
    /\ ~paused
    /\ minBountyAmount <= amount /\ amount <= maxBountyAmount
    /\ amount <= maxAmount /\ maxAmount <= maxBountyAmount
    /\ (expiresAt = 0 \/ expiresAt > now)

\* C12: no two Active bounties share a (repository, issueId) pair.  While
\* the bounty of a pair is Active every createBounty call for that pair is
\* rejected, with BountyAlreadyExists when the call passes the pause, amount
\* and expiry checks the code makes first; and no step adds a bounty for a
\* pair that has an Active bounty or takes tokens into custody without
\* adding or topping up a bounty.
C12_Dedupe ==
    /\ [](\A b \in DOMAIN bounties :
            bounties[b].status = "Active" =>
              /\ \A o \in DOMAIN bounties :
                    (/\ bounties[o].status = "Active"
                     /\ bounties[o].repository = bounties[b].repository
                     /\ bounties[o].issueId = bounties[b].issueId) => o = b
              /\ \A c \in Callers, a \in CreateArgs, e \in Expiries :
                    LET err == createError(c, bounties[b].repository,
                                           bounties[b].issueId, a[1], a[2], e)
                    IN  /\ err # ""
                        /\ createArgsAccepted(a[1], a[2], e)
                              => err = "BountyAlreadyExists")
    /\ [][/\ Len(bounties') > Len(bounties) =>
               \A b \in DOMAIN bounties :
                  bounties[b].status = "Active" =>
                     \/ bounties[b].repository # bounties'[Len(bounties')].repository
                     \/ bounties[b].issueId # bounties'[Len(bounties')].issueId
          /\ balance'[ESCROW] > balance[ESCROW] =>
               \/ Len(bounties') > Len(bounties)
               \/ \E b \in DOMAIN bounties :
                     bounties'[b].currentAmount > bounties[b].currentAmount]_vars

\* an Active bounty whose creator, holding the tokens for a second bounty on
\* the same issue, is answered BountyAlreadyExists
C12_Witness ==
    \E b \in DOMAIN bounties :
        /\ bounties[b].status = "Active"
        /\ ~paused
        /\ balance[bounties[b].creator] >= 100
        /\ nextBountyId <= MaxBounties
        /\ createError(bounties[b].creator, bounties[b].repository,
                       bounties[b].issueId, 100, 150, 0) = "BountyAlreadyExists"

\* C13: once the bounty of a (repository, issueId) pair is terminal and no
\* other bounty of the pair is Active, a createBounty call for the pair
\* whose amounts and expiry are valid and whose caller can pay goes through.
C13_RecreateAfterTerminal ==
    \A b \in DOMAIN bounties :
        (/\ bounties[b].status \in Terminal
         /\ \A o \in DOMAIN bounties :
               (/\ bounties[o].repository = bounties[b].repository
                /\ bounties[o].issueId = bounties[b].issueId)
                  => bounties[o].status \in Terminal
         /\ createArgsAccepted(100, 150, 0)
         /\ transferFromError(CREATOR, 100) = "")
           => createError(CREATOR, bounties[b].repository,
                          bounties[b].issueId, 100, 150, 0) = ""

\* C14: a releaseBounty call goes through only if the caller holds
\* ORACLE_ROLE and the solver is not the zero address.  A caller without the
\* role (the creator and the admin included) is rejected by the role check;
\* the oracle naming the zero address is rejected, with InvalidSolverAddress
\* when not paused (the pause check comes first).  So a bounty becomes
\* Claimed only in a step that records a non-zero solver, from a state in
\* which the oracle's release to that solver goes through.
C14_OracleAndSolverOnly ==
    /\ [](\A c \in Callers, b \in BountyIds, s \in Solvers :
            /\ releaseError(c, b, s) = ""
                  => (hasRole(ORACLE_ROLE, c) /\ s # ZERO)
            /\ ~hasRole(ORACLE_ROLE, c)
                  => releaseError(c, b, s) = "AccessControlUnauthorizedAccount"
            /\ (hasRole(ORACLE_ROLE, c) /\ s = ZERO)
                  => /\ releaseError(c, b, s) # ""
                     /\ ~paused => releaseError(c, b, s) = "InvalidSolverAddress")
    /\ [][\A b \in DOMAIN bounties :
            (bounties[b].status = "Active" /\ bounties'[b].status = "Claimed")
               => /\ bounties'[b].solver # ZERO
                  /\ \E c \in roles[ORACLE_ROLE] :
                        releaseError(c, b, bounties'[b].solver) = ""]_vars

\* a funded Active bounty that the oracle can release to the solver, while
\* its creator and the admin are refused and so is the oracle naming the
\* zero address
C14_Witness ==
    \E b \in DOMAIN bounties :
        /\ bounties[b].status = "Active"
        /\ balance[ESCROW] >= bounties[b].currentAmount
        /\ releaseError(ORACLE, b, SOLVER) = ""
        /\ releaseError(bounties[b].creator, b, SOLVER)
              = "AccessControlUnauthorizedAccount"
        /\ releaseError(ADMIN, b, SOLVER) = "AccessControlUnauthorizedAccount"
        /\ releaseError(ORACLE, b, ZERO) = "InvalidSolverAddress"

\* C15: cancelBounty called on a bounty by a principal that is neither its
\* creator nor an admin is rejected, with UnauthorizedCaller when the bounty
\* is Active (the status check comes first); a rejected call is a reverted
\* transaction, so status, currentAmount and balances stay as they were.  A
\* bounty becomes Cancelled only in a step from a state in which the cancel
\* of its creator or of an admin is accepted, and that step changes nothing
\* of the bounty but its status.
C15_CancelUnauthorized ==
    /\ [](\A b \in DOMAIN bounties, c \in Callers :
            (c # bounties[b].creator /\ ~hasRole(ADMIN_ROLE, c)) =>
               /\ cancelError(c, b) # ""
               /\ bounties[b].status = "Active"
                     => cancelError(c, b) = "UnauthorizedCaller")
    /\ [][\A b \in DOMAIN bounties :
            (bounties[b].status = "Active" /\ bounties'[b].status = "Cancelled")
               => /\ \E c \in {bounties[b].creator} \cup roles[ADMIN_ROLE] :
                        cancelError(c, b) = ""
                  /\ bounties'[b] = [bounties[b] EXCEPT !.status = "Cancelled"]
                  /\ balance'[bounties[b].creator] =
                        balance[bounties[b].creator] + bounties[b].currentAmount
            ]_vars

\* a funded Active bounty that its creator and the admin can cancel while
\* the oracle and the solver are answered UnauthorizedCaller
C15_Witness ==
    \E b \in DOMAIN bounties :
        /\ bounties[b].status = "Active"
        /\ cancelError(bounties[b].creator, b) = ""
        /\ cancelError(ADMIN, b) = ""
        /\ cancelError(ORACLE, b) = "UnauthorizedCaller"
        /\ cancelError(SOLVER, b) = "UnauthorizedCaller"

\* C16: where only creators have paid into bounties (the oracle has topped
\* up nothing), the creator's balance plus the Active bounties' amounts is
\* what the creator started with: once the bounties are cancelled the
\* creator holds exactly the balance held before createBounty.  The step
\* that cancels a bounty pays its whole currentAmount, no fee taken, from
\* the escrow to the creator and to nobody else, and sets status Cancelled.
C16_CreateCancelRoundTrip ==
    /\ [](balance[ORACLE] = OracleFunds =>
            /\ balance[CREATOR] + ActiveTotal = CreatorFunds
            /\ balance[ESCROW] = ActiveTotal
            /\ balance[FEE] = 0)
    /\ [][\A b \in DOMAIN bounties :
            (bounties[b].status = "Active" /\ bounties'[b].status # "Active")
               => LET who == bounties[b].creator
                      A == bounties[b].currentAmount
                  IN  /\ bounties'[b] = [bounties[b] EXCEPT !.status = "Cancelled"]
                      /\ balance' = [balance EXCEPT ![who] = @ + A,
                                                    ![ESCROW] = @ - A]]_vars

\* two bounties created, one of them topped up by its creator, and all
\* cancelled: the creator is back at the starting balance
C16_Witness ==
    /\ Len(bounties) >= 2
    /\ \A b \in DOMAIN bounties : bounties[b].status = "Cancelled"
    /\ \E b \in DOMAIN bounties :
          /\ bounties[b].escalationCount > 0
          /\ bounties[b].currentAmount > bounties[b].initialAmount
    /\ balance[ORACLE] = OracleFunds
    /\ balance[CREATOR] = CreatorFunds
    /\ balance[ESCROW] = 0

\* C17: claimExpiredBounty, whoever calls: on an Active bounty that has an
\* expiry still ahead it is answered NotYetExpired, an answer of its own
\* kind; on an Active bounty whose expiry has come it refunds (given the
\* escrow holds the amount); a bounty without expiry is never accepted and
\* no bounty without expiry is Expired.
C17_SweepExpired ==
    \A b \in DOMAIN bounties, c \in Callers :
        /\ (/\ bounties[b].status = "Active"
            /\ bounties[b].expiresAt # 0
            /\ now < bounties[b].expiresAt)
              => claimExpiredError(c, b) = "NotYetExpired"
        /\ (/\ bounties[b].status = "Active"
            /\ bounties[b].expiresAt # 0
            /\ now >= bounties[b].expiresAt
            /\ balance[ESCROW] >= bounties[b].currentAmount)
              => claimExpiredError(c, b) = ""
        /\ bounties[b].expiresAt = 0
              => (claimExpiredError(c, b) # "" /\ bounties[b].status # "Expired")

\* C18: a createBounty call that is not paused and has valid amounts but an
\* expiry that is set and not after now is rejected with an error of the
\* expiry's own, not the amount error; and every bounty's expiry is 0 or
\* after its creation time.
C18_InvalidExpiry ==
    /\ \A c \in Callers, i \in IssueIds, e \in Expiries :
          (/\ createArgsAccepted(100, 150, 0)
           /\ e # 0
           /\ e <= now)
             => /\ createError(c, "owner/repo", i, 100, 150, e) # ""
                /\ createError(c, "owner/repo", i, 100, 150, e) # "InvalidAmount"
    /\ \A b \in DOMAIN bounties :
          bounties[b].expiresAt = 0 \/ bounties[b].expiresAt > bounties[b].createdAt

\* the amount and cap are within the configuration in force
amountsInRange(amount, maxAmount) ==
    /\ minBountyAmount <= amount
    /\ amount <= maxAmount
    /\ maxAmount <= maxBountyAmount

\* C19: a createBounty call goes through only if
\* minBountyAmount <= amount <= maxAmount <= maxBountyAmount under the
\* configuration in force; any other amount and cap are rejected, with
\* InvalidAmount when the contract is not paused, and a rejected call is a
\* reverted transaction.  The step that adds a bounty adds exactly one and
\* changes no other, with the next id,
\* initialAmount = currentAmount = amount within the configured range,
\* status Active and escalationCount 0, and moves exactly amount from the
\* creator to the escrow.
C19_CreateAmountRange ==
    /\ [](\A c \in Callers, i \in IssueIds, a \in CreateArgsWide,
             e \in Expiries :
            LET err == createError(c, "owner/repo", i, a[1], a[2], e) IN
            /\ err = "" => amountsInRange(a[1], a[2])
            /\ ~amountsInRange(a[1], a[2]) =>
                  /\ err # ""
                  /\ ~paused => err = "InvalidAmount")
    /\ [][Len(bounties') # Len(bounties) =>
            LET new == bounties'[Len(bounties')] IN
            /\ Len(bounties') = Len(bounties) + 1
            /\ \A b \in DOMAIN bounties : bounties'[b] = bounties[b]
            /\ new.id = nextBountyId /\ nextBountyId' = nextBountyId + 1
            /\ new.initialAmount = new.currentAmount
            /\ amountsInRange(new.currentAmount, new.maxAmount)
            /\ new.status = "Active"
            /\ new.escalationCount = 0
            /\ balance' = [balance EXCEPT ![new.creator] = @ - new.currentAmount,
                                          ![ESCROW] = @ + new.currentAmount]]_vars

\* under a configuration with a raised minimum: a bounty of 120 created and
\* in custody, while 100 with cap 150 and 150 with cap 200 are answered
\* InvalidAmount
C19_Witness ==
    /\ minBountyAmount = 120
    /\ \E b \in DOMAIN bounties :
          /\ bounties[b].status = "Active"
          /\ bounties[b].initialAmount = 120
          /\ bounties[b].currentAmount = 120
          /\ bounties[b].createdAt = now
          /\ balance[ESCROW] >= 120
    /\ \E i \in IssueIds :
          /\ createError(CREATOR, "owner/repo", i, 100, 150, 0) = "InvalidAmount"
          /\ createError(CREATOR, "owner/repo", i, 100, 50, 0) = "InvalidAmount"

\* C20: no partial success.  A rejected call, whether rejected by a check or
\* by a token transfer that fails after the state writes, is a reverted
\* transaction; so every step that changes bounties, indexes, nextBountyId,
\* configuration or balances is the whole effect of a call that the state
\* before it accepts.  A committed step moves state and custody together: a
\* new bounty comes with its amount in escrow, a top-up with the same
\* increase of the escrow balance, a status change with tokens leaving the
\* escrow; and balances change only with such a change or in an admin
\* withdrawal.  No balance is ever negative, ids are consecutive, and the
\* issue, creator and solver indexes name exactly the bounties written.
C20_NoPartialSuccess ==
    /\ [](/\ \A h \in Holders : balance[h] >= 0 /\ otherBalance[h] >= 0
          /\ nextBountyId = Len(bounties) + 1
          /\ \A k \in IssueKeys :
                issueToBountyId[k] # 0 =>
                   /\ issueToBountyId[k] \in DOMAIN bounties
                   /\ issueHash(bounties[issueToBountyId[k]].repository,
                                bounties[issueToBountyId[k]].issueId) = k
          /\ \A b \in DOMAIN bounties :
                /\ bounties[b].id = b
                /\ issueToBountyId[issueHash(bounties[b].repository,
                                             bounties[b].issueId)] = b
                /\ \E n \in DOMAIN creatorBounties[bounties[b].creator] :
                      creatorBounties[bounties[b].creator][n] = b
                /\ bounties[b].status = "Claimed" <=>
                      \E x \in Solvers :
                         /\ bounties[b].solver = x
                         /\ \E n \in DOMAIN solverBounties[x] :
                               solverBounties[x][n] = b)
    /\ [][ledgerVars' # ledgerVars =>
            \/ \E c \in Callers, a \in CreateArgs, e \in Expiries :
                  /\ createError(c, "owner/repo", 1, a[1], a[2], e) = ""
                  /\ createBounty(c, "owner/repo", 1, IssueUrl, a[1], a[2], e)
            \/ \E c \in Callers, b \in AtomicBountyIds :
                  \/ \E a \in AtomicEscalateAmounts :
                        escalateError(c, b, a) = "" /\ escalateBounty(c, b, a)
                  \/ \E x \in Solvers :
                        /\ releaseError(c, b, x) = ""
                        /\ releaseBounty(c, b, x, SolverLogin, PullRequestUrl)
                  \/ cancelError(c, b) = "" /\ cancelBounty(c, b)
                  \/ claimExpiredError(c, b) = "" /\ claimExpiredBounty(c, b)
            \/ \E c \in Callers :
                  \/ \E a \in ConfigArgs :
                        /\ updateConfigError(c, a[1], a[2], a[3], a[4]) = ""
                        /\ updateConfig(c, a[1], a[2], a[3], a[4])
                  \/ pauseError(c) = "" /\ pause(c)
                  \/ unpauseError(c) = "" /\ unpause(c)
                  \/ \E t \in AtomicTokens, a \in WithdrawAmounts :
                        /\ emergencyWithdrawError(c, t, a) = ""
                        /\ emergencyWithdraw(c, t, a)]_vars
    /\ [][/\ Len(bounties') > Len(bounties) =>
               balance'[ESCROW] =
                  balance[ESCROW] + bounties'[Len(bounties')].currentAmount
          /\ \A b \in DOMAIN bounties :
               /\ bounties'[b].currentAmount # bounties[b].currentAmount =>
                     balance'[ESCROW] - balance[ESCROW] =
                        bounties'[b].currentAmount - bounties[b].currentAmount
               /\ bounties'[b].status # bounties[b].status =>
                     /\ balance'[ESCROW] < balance[ESCROW]
                     /\ exits'[b] = exits[b] + 1
                     /\ outflow'[b] = balance[ESCROW] - balance'[ESCROW]
          /\ balance' # balance =>
               \/ bounties' # bounties
               \/ /\ balance'[ESCROW] < balance[ESCROW]
                  /\ \E c \in roles[ADMIN_ROLE] :
                        balance' = [balance EXCEPT
                           ![c] = @ + balance[ESCROW] - balance'[ESCROW],
                           ![ESCROW] = balance'[ESCROW]]]_vars

\* an Active bounty whose tokens the escrow no longer holds: the oracle's
\* release passes every check, writes the claim and is then rejected by the
\* token transfer, and the bounty stands unclaimed
C20_Witness ==
    /\ 1 \in DOMAIN bounties
    /\ bounties[1].status = "Active"
    /\ bounties[1].solver = ZERO
    /\ ~paused
    /\ balance[ESCROW] < bounties[1].currentAmount
    /\ releaseError(ORACLE, 1, SOLVER) = "ERC20InsufficientBalance"
    /\ cancelError(bounties[1].creator, 1) = "ERC20InsufficientBalance"
    /\ createError(SOLVER, "owner/repo", 2, 100, 150, 0)
          = "ERC20InsufficientAllowance"

\* C22: terminal bounties are immutable and retained.  Once a bounty is
\* Claimed, Cancelled or Expired, every escalate, release, cancel and sweep
\* call on it is rejected, no step changes any field of its record, and the
\* record stays in storage, where getBounty reads it back whole.
C22_TerminalRetained ==
    /\ [](\A b \in DOMAIN bounties :
            bounties[b].status \in Terminal =>
               /\ getBounty(b) = bounties[b]
               /\ getBounty(b).id = b
               /\ \A c \in Callers :
                     /\ \A x \in EscalateAmounts \cup {0} :
                           escalateError(c, b, x) # ""
                     /\ \A s \in Solvers : releaseError(c, b, s) # ""
                     /\ cancelError(c, b) # ""
                     /\ claimExpiredError(c, b) # "")
    /\ [][\A b \in DOMAIN bounties :
            bounties[b].status \in Terminal =>
               /\ b \in DOMAIN bounties'
               /\ bounties'[b] = bounties[b]]_vars

\* a cancelled or swept bounty that was escalated before, read back with its
\* amounts, while the ledger is open and its creator could fund a top-up
C22_Witness ==
    \E b \in DOMAIN bounties :
        /\ bounties[b].status \in {"Cancelled", "Expired"}
        /\ getBounty(b).escalationCount = 1
        /\ getBounty(b).currentAmount = 150
        /\ getBounty(b).initialAmount = 100
        /\ ~paused
        /\ transferFromError(bounties[b].creator, 0) = ""
        /\ escalateError(bounties[b].creator, b, 0) = "BountyNotActive"

\* C23: a successful escalateBounty(id, x) adds exactly x to the bounty's
\* currentAmount and 1 to its escalationCount, moves exactly x from the
\* caller into custody, keeps the status Active, and changes no other field
\* of that bounty, no other bounty, no index and no configuration value.
C23_EscalateEffect ==
    [][\A b \in DOMAIN bounties :
          (bounties'[b] # bounties[b] /\ bounties'[b].status = "Active") =>
             LET x == bounties'[b].currentAmount - bounties[b].currentAmount
             IN  /\ x >= 0
                 /\ bounties[b].status = "Active"
                 /\ bounties' =
                        [bounties EXCEPT
                             ![b].currentAmount = bounties[b].currentAmount + x,
                             ![b].escalationCount =
                                 bounties[b].escalationCount + 1]
                 /\ balance'[ESCROW] = balance[ESCROW] + x
                 /\ \E c \in Callers :
                       /\ escalateError(c, b, x) = ""
                       /\ balance' = Move(balance, c, ESCROW, x)
                 /\ UNCHANGED <<nextBountyId, issueToBountyId,
                                creatorBounties, solverBounties,
                                minBountyAmount, maxBountyAmount,
                                platformFeeBps, feeRecipient, roles, paused,
                                otherBalance, approved>>]_vars

\* the spec's example: 100 escalated once by 50 stands at 150, count 1, with
\* the 150 in custody and out of the creator's balance
C23_Witness ==
    /\ Len(bounties) = 1
    /\ bounties[1].status = "Active"
    /\ bounties[1].initialAmount = 100
    /\ bounties[1].currentAmount = 150
    /\ bounties[1].escalationCount = 1
    /\ balance[ESCROW] = 150
    /\ balance[CREATOR] = CreatorFunds - 150

\* C24: escalateBounty goes through only for the bounty's creator or a holder
\* of the oracle role.  While the ledger is not paused (the pause check comes
\* first), a call by anyone else on an Active bounty, an admin included, is
\* answered UnauthorizedCaller; a call on an id that was never assigned is
\* answered BountyNotFound and a call on a terminal bounty BountyNotActive,
\* whoever calls and whatever the amount.
C24_EscalateAuthorized ==
    \A c \in Callers, x \in EscalateAmounts \cup {0} :
        /\ \A b \in BountyIds \cup {0, MaxBounties + 1} :
              escalateError(c, b, x) = "" =>
                 /\ b \in DOMAIN bounties
                 /\ bounties[b].status = "Active"
                 /\ c = bounties[b].creator \/ hasRole(ORACLE_ROLE, c)
        /\ ~paused =>
              /\ \A b \in (BountyIds \cup {0, MaxBounties + 1})
                             \ DOMAIN bounties :
                    escalateError(c, b, x) = "BountyNotFound"
              /\ \A b \in DOMAIN bounties :
                    /\ bounties[b].status \in Terminal =>
                          escalateError(c, b, x) = "BountyNotActive"
                    /\ ( /\ bounties[b].status = "Active"
                         /\ c # bounties[b].creator
                         /\ ~hasRole(ORACLE_ROLE, c) ) =>
                          escalateError(c, b, x) = "UnauthorizedCaller"

\* one Active and one terminal bounty on an open ledger: the creator's and
\* the oracle's zero top-ups pass, the admin's and the solver's are answered
\* UnauthorizedCaller, and the creator's call on the terminal one NotActive
C24_Witness ==
    \E a, t \in DOMAIN bounties :
        /\ ~paused
        /\ bounties[a].status = "Active"
        /\ bounties[t].status \in Terminal
        /\ escalateError(bounties[a].creator, a, 0) = ""
        /\ escalateError(ORACLE, a, 0) = ""
        /\ escalateError(ADMIN, a, 0) = "UnauthorizedCaller"
        /\ escalateError(SOLVER, a, 50) = "UnauthorizedCaller"
        /\ escalateError(bounties[t].creator, t, 0) = "BountyNotActive"
        /\ escalateError(ADMIN, 0, 0) = "BountyNotFound"

\* C25: in every reachable state platformFeeBps <= 1000, minBountyAmount > 0
\* and maxBountyAmount >= minBountyAmount; updateConfig, pause, unpause and
\* emergencyWithdraw are rejected for every caller who is not an admin, and
\* updateConfig for every setting that breaks a rule; the configuration
\* changes only to the arguments of an admin's accepted updateConfig, the
\* pause flag only by an admin's pause or unpause, and tokens leave the
\* escrow only to an admin.
C25_ConfigInvariant ==
    /\ [](/\ platformFeeBps <= 1000
          /\ minBountyAmount > 0
          /\ maxBountyAmount >= minBountyAmount
          /\ \A c \in Callers, a \in ConfigArgsAll :
                updateConfigError(c, a[1], a[2], a[3], a[4]) = "" =>
                   /\ hasRole(ADMIN_ROLE, c)
                   /\ a[3] <= 1000 /\ a[1] > 0 /\ a[2] >= a[1]
          /\ \A c \in Callers :
                ~hasRole(ADMIN_ROLE, c) =>
                   /\ pauseError(c) # ""
                   /\ unpauseError(c) # ""
                   /\ \A t \in AtomicTokens, x \in ConfigWithdrawAmounts :
                         emergencyWithdrawError(c, t, x) # "")
    /\ [][/\ configuration' # configuration =>
                \E c \in Callers, a \in ConfigArgsAll :
                   /\ hasRole(ADMIN_ROLE, c)
                   /\ updateConfigError(c, a[1], a[2], a[3], a[4]) = ""
                   /\ configuration' = a
          /\ paused' # paused =>
                \E c \in Callers :
                   /\ hasRole(ADMIN_ROLE, c)
                   /\ IF paused THEN unpauseError(c) = ""
                                ELSE pauseError(c) = ""
          /\ ( \/ balance'[ESCROW] < balance[ESCROW]
               \/ otherBalance'[ESCROW] < otherBalance[ESCROW] ) =>
                \E c \in Callers :
                   /\ hasRole(ADMIN_ROLE, c)
                   /\ \/ balance'[c] > balance[c]
                      \/ otherBalance'[c] > otherBalance[c]]_vars

\* an admin has set the fee rate to the cap with minimum = maximum, paused
\* the ledger and withdrawn tokens, and the next setting above the cap, or
\* from the creator, is refused
C25_Witness ==
    /\ configuration = <<100, 100, 1000, FEE>>
    /\ paused
    /\ balance[ADMIN] > 0
    /\ updateConfigError(ADMIN, 1, 1000000, 1001, FEE) = "InvalidConfiguration"
    /\ updateConfigError(ADMIN, 0, 1000000, 250, FEE) = "InvalidConfiguration"
    /\ updateConfigError(ADMIN, 2, 1, 250, FEE) = "InvalidConfiguration"
    /\ updateConfigError(CREATOR, 1, 1000000, 250, FEE)
          = "AccessControlUnauthorizedAccount"

\* C21: no state-changing entry point runs while another call is suspended
\* in its token transfer: between a call's entry and the return of its
\* transfer no step changes a bounty, an index, a token balance, the
\* configuration or the pause flag; and a call entering its transfer has
\* written the bounty's status and amount while no token has moved yet.
C21_NoReentry ==
    /\ [][(callStack # NoCall /\ callStack' # NoCall) =>
              UNCHANGED ledgerVars]_vars
    /\ [][(callStack = NoCall /\ callStack' # NoCall) =>
              /\ balance' = balance
              /\ otherBalance' = otherBalance
              /\ LET f == callStack' IN
                 /\ f.fn = "releaseBounty" =>
                       bounties'[f.bountyId].status = "Claimed"
                 /\ f.fn = "cancelBounty" =>
                       bounties'[f.bountyId].status = "Cancelled"
                 /\ f.fn = "claimExpiredBounty" =>
                       bounties'[f.bountyId].status = "Expired"
                 /\ f.fn \in {"createBounty", "escalateBounty"} =>
                       /\ bounties'[f.bountyId].status = "Active"
                       /\ bounties'[f.bountyId].currentAmount
                             = Bounty(f.bountyId).currentAmount
                                  + f.transfers[1][3]]_vars

\* C26: when USE_BLOCKCHAIN is not 'true', createOnChainBounty,
\* escalateOnChainBounty, releaseOnChainBounty, getOnChainBounty and
\* getOnChainBountyByIssue all give back null, neither throwing nor reaching
\* a rail's service, before initialize, after it succeeded and after it
\* failed.
C26_RailExclusiveNull ==
    USE_BLOCKCHAIN # "true" =>
       /\ ~useBlockchain
       /\ createOnChainBountyResult = "null"
       /\ escalateOnChainBountyResult = "null"
       /\ releaseOnChainBountyResult = "null"
       /\ getOnChainBountyResult = "null"
       /\ getOnChainBountyByIssueResult = "null"

\* the service rail selected by USE_BLOCKCHAIN = 'false', initialized, with a
\* payment already sent, and the release call answering null
C26_Witness ==
    /\ USE_BLOCKCHAIN = "false"
    /\ initialized
    /\ Len(payments) >= 1
    /\ releaseOnChainBountyResult = "null"
    /\ createOnChainBountyResult = "null"

\* C27: on the custodial rail sendPayment transfers only after its checks.
\* A payment is made only to a valid address, out of a wallet holding at
\* least the amount in MNEE and at least the minimum in ETH, and the
\* wallet's MNEE moves by nothing else; a call with an invalid address is
\* answered "Invalid Ethereum address", one for more than the wallet's MNEE
\* "Insufficient MNEE balance", one from a wallet under the ETH minimum
\* "Insufficient ETH for gas", each for calls passing the checks before it.
C27_SendPaymentChecks ==
    /\ []((initialized /\ useBlockchain) =>
            \A r \in Recipients, a \in PaymentAmounts, g \in BOOLEAN,
               c \in GasCosts :
               LET err == ethereumSendPaymentError(r, a, g, c) IN
               /\ ~isAddress(r) => err = "Invalid Ethereum address"
               /\ (isAddress(r) /\ balance[WALLET] < a)
                     => err = "Insufficient MNEE balance"
               /\ ( /\ isAddress(r) /\ balance[WALLET] >= a
                    /\ ethBalance < MinEthForGas )
                     => err = "Insufficient ETH for gas")
    /\ [][/\ payments' # payments =>
                LET p == payments'[Len(payments')] IN
                /\ payments' = Append(payments, p)
                /\ p.rail = "ethereum" =>
                      /\ initialized /\ useBlockchain
                      /\ isAddress(p.recipient)
                      /\ balance[WALLET] >= p.amount
                      /\ ethBalance >= MinEthForGas
                      /\ balance' =
                            Move(balance, WALLET, p.recipient, p.amount)
          /\ balance'[WALLET] # balance[WALLET] =>
                Len(payments') = Len(payments) + 1]_vars

\* after a payment of 20 the wallet holds 30 MNEE and too little ETH: a
\* payment of 100 is refused for the balance, one of 20 for the gas, one to
\* a non-address for the address
C27_Witness ==
    /\ initialized /\ useBlockchain
    /\ Len(payments) >= 1
    /\ payments[1] = [rail |-> "ethereum", recipient |-> SOLVER,
                      amount |-> 20, bountyId |-> 1]
    /\ balance[WALLET] = OracleFunds - 20
    /\ balance[SOLVER] >= 20
    /\ ethBalance < MinEthForGas
    /\ ethereumSendPaymentError(SOLVER, 100, TRUE, 20)
          = "Insufficient MNEE balance"
    /\ ethereumSendPaymentError(SOLVER, 20, TRUE, 20)
          = "Insufficient ETH for gas"
    /\ ethereumSendPaymentError(NOT_AN_ADDRESS, 20, TRUE, 20)
          = "Invalid Ethereum address"

\* C28: on the custodial rail the fee calculateFee quotes for an amount is
\* the fee releaseBounty deducts from a bounty of that amount,
\* floor(amount * platformFeeBps / 10000) in the ledger's units: for every
\* Active bounty the quote equals platformFeeOf of its amount, and a release
\* through the gateway pays the solver the amount less the quote.
C28_QuoteMatchesLedger ==
    /\ []((initialized /\ useBlockchain) =>
            \A b \in DOMAIN bounties :
               bounties[b].status = "Active" =>
                  quoteIs(calculateFee(bounties[b].currentAmount),
                          platformFeeOf(bounties[b].currentAmount)))
    /\ [][\A b \in DOMAIN bounties :
            (bounties[b].status = "Active" /\ bounties'[b].status = "Claimed")
               => quoteIs(calculateFee(bounties[b].currentAmount),
                          bounties[b].currentAmount
                             - (balance'[SOLVER] - balance[SOLVER]))]_vars

\* C29: a bounty is paid out at most once on either rail: over any sequence
\* of release attempts through the gateway, retries included
\* (releaseOnChainBounty on the custodial rail; its null followed by
\* sendPayment with the bounty's id on the service rail), at most one
\* payment is made for one bounty.
C29_PaidOnce ==
    \A b \in PaymentBountyIds : payoutsOf(b) <= 1

\* C30: the bounties table never holds two non-terminal rows for one work
\* item: besides holding one row per bounty_id, it holds at most one
\* non-terminal row per (repository, issue_id).
C30_StoreDedupe ==
    \A r1, r2 \in rows :
        /\ r1.bounty_id = r2.bounty_id => r1 = r2
        /\ ( /\ r1.status \in NonTerminalRowStatuses
             /\ r2.status \in NonTerminalRowStatuses
             /\ r1.repository = r2.repository
             /\ r1.issue_id = r2.issue_id ) => r1 = r2

\* C31: on the custodial rail the gateway's createBounty, and its
\* escalateBounty with additionalAmount > 0, send the escrow's locking
\* transaction only when the wallet's allowance toward the escrow covers the
\* amount to lock; ensureAllowance hands over to the locking transaction only
\* with the allowance in place, an approval it sent having been confirmed;
\* and when the allowance query or the approval fails the call ends there,
\* with nothing sent to the escrow.
C31_AllowanceBeforeLock ==
    /\ [][(/\ lockingCall.pc = "submit"
           /\ lockingCall'.pc \in {"returned", "thrown"}
           /\ (lockingCall.fn = "createBounty" \/ lockingCall.amount > 0))
          => allowanceCovers(WALLET, lockingCall.amount)]_vars
    /\ [][(lockingCall.pc = "ensureAllowance" /\ lockingCall'.pc = "submit")
          => /\ lockingCall.amount = 0 \/ WALLET \in approved'
             /\ lockingCall'.approvedByCall = (approved' # approved)]_vars
    /\ [][(lockingCall.pc = "ensureAllowance" /\ lockingCall'.pc = "thrown")
          => UNCHANGED ledgerVars]_vars

\* the wallet had no allowance, the approval was confirmed, and the bounty
\* was then created with the wallet's tokens in custody
C31_Witness ==
    /\ lockingCall.fn = "createBounty"
    /\ lockingCall.pc = "returned"
    /\ lockingCall.approvedByCall
    /\ \E b \in DOMAIN bounties :
           bounties[b].creator = WALLET /\ balance[ESCROW] >= lockingCall.amount

\* C32: a gateway createBounty or escalateBounty that has thrown leaves no
\* allowance toward the escrow that the call itself established: either the
\* call sent no approval, or the approval is no longer in place.
C32_NoPartialEffect ==
    lockingCall.pc = "thrown" =>
        ~(lockingCall.approvedByCall /\ allowanceCovers(WALLET, 1))

\* C33: on an unpaused ledger, an escalateBounty of an Active bounty by its
\* creator or the oracle that keeps currentAmount + additionalAmount within
\* maxAmount, the caller funded and approved, is accepted whatever the
\* bounty's escalationCount is, a zero-amount escalation included.
C33_NoCountLimit ==
    \A c \in CountEscalators, b \in DOMAIN bounties, a \in CountEscalations :
        (/\ ~paused
         /\ bounties[b].status = "Active"
         /\ bounties[b].creator = c \/ hasRole(ORACLE_ROLE, c)
         /\ bounties[b].currentAmount + a <= bounties[b].maxAmount
         /\ transferFromError(c, a) = "")
        => escalateError(c, b, a) = ""

\* C34: from the moment now >= expiresAt, with expiresAt # 0, until it is
\* swept, released or cancelled, an Active bounty can be swept by every
\* caller: claimExpiredBounty is accepted, whether the ledger is paused or
\* not.
C34_SweepStaysEnabled ==
    \A b \in DOMAIN bounties, c \in Callers :
        (/\ bounties[b].status = "Active"
         /\ bounties[b].expiresAt # 0
         /\ now >= bounties[b].expiresAt)
        => claimExpiredError(c, b) = ""

\* C35: the step that cancels or sweeps a bounty pays its currentAmount from
\* the escrow to the bounty's creator and to nobody else, whoever called; a
\* funded escalateBounty takes the amount from its caller and from nobody
\* else; so once the bounties are all refunded the creator holds the own
\* starting balance plus everything the oracle has put into escalations.
C35_RefundToCreator ==
    /\ [][\A b \in DOMAIN bounties :
            (/\ bounties[b].status = "Active"
             /\ bounties'[b].status \in {"Cancelled", "Expired"})
            => balance' =
                   [balance EXCEPT
                        ![bounties[b].creator] = @ + bounties[b].currentAmount,
                        ![ESCROW] = @ - bounties[b].currentAmount]]_vars
    /\ [][\A c \in Callers, b \in DOMAIN bounties, a \in ExpiryEscalations :
            (/\ a > 0
             /\ escalateError(c, b, a) = ""
             /\ escalateBounty(c, b, a))
            => balance' = [balance EXCEPT ![c] = @ - a,
                                          ![ESCROW] = @ + a]]_vars
    /\ []((\A b \in DOMAIN bounties :
              bounties[b].status \in {"Cancelled", "Expired"})
          => balance[CREATOR] =
                 CreatorFunds + (OracleFunds - balance[ORACLE]))

\* the oracle has topped a bounty up out of its own balance and the bounty
\* was swept after its expiry: the creator holds more than at the start
C35_Witness ==
    /\ \E b \in DOMAIN bounties :
          /\ bounties[b].status = "Expired"
          /\ bounties[b].currentAmount > bounties[b].initialAmount
    /\ \A b \in DOMAIN bounties :
          bounties[b].status \in {"Cancelled", "Expired"}
    /\ balance[ORACLE] < OracleFunds
    /\ balance[CREATOR] > CreatorFunds

\* C36: time passing changes no bounty, index, setting or balance, and what
\* releaseBounty, escalateBounty and cancelBounty answer to any caller is the
\* same after a block as before it, the block that brings a bounty's expiry
\* included; so an Active bounty whose expiry has come is still released to
\* a solver by the oracle on the unpaused ledger, and still cancelled by its
\* creator.
C36_ExpiryChangesNothing ==
    /\ [][now' # now =>
            /\ UNCHANGED ledgerVars
            /\ \A c \in Callers, b \in BountyIds :
                  /\ \A s \in Solvers :
                        releaseError(c, b, s)' = releaseError(c, b, s)
                  /\ \A a \in ExpiryEscalations :
                        escalateError(c, b, a)' = escalateError(c, b, a)
                  /\ cancelError(c, b)' = cancelError(c, b)]_vars
    /\ [](\A b \in DOMAIN bounties :
            (/\ bounties[b].status = "Active"
             /\ bounties[b].expiresAt # 0
             /\ now >= bounties[b].expiresAt)
            => /\ cancelError(bounties[b].creator, b) = ""
               /\ ~paused => /\ releaseError(ORACLE, b, SOLVER) = ""
                             /\ escalateError(ORACLE, b, 0) = "")

\* a bounty released to its solver after its expiry had come
C36_Witness ==
    \E b \in DOMAIN bounties :
        /\ bounties[b].status = "Claimed"
        /\ bounties[b].expiresAt # 0
        /\ bounties[b].claimedAt >= bounties[b].expiresAt
        /\ bounties[b].solver = SOLVER

\* C37: a step that changes the configuration or the pause changes no bounty
\* record, no index and no balance of either token; an Active bounty on the
\* unpaused ledger accepts every top-up that stays within its own maxAmount,
\* whatever maxBountyAmount has become; and the step that releases a bounty
\* takes the fee at the platformFeeBps of that moment and pays it to the
\* feeRecipient of that moment, the rest going to the solver.
C37_ConfigFrame ==
    /\ [][(configuration' # configuration \/ paused' # paused)
          => UNCHANGED <<bounties, nextBountyId, issueToBountyId,
                         creatorBounties, solverBounties, balance,
                         otherBalance>>]_vars
    /\ [](\A b \in DOMAIN bounties, a \in ReconfigEscalations :
            (/\ ~paused
             /\ bounties[b].status = "Active"
             /\ bounties[b].currentAmount + a <= bounties[b].maxAmount
             /\ bounties[b].escalationCount < Uint8Max
             /\ transferFromError(bounties[b].creator, a) = "")
            => escalateError(bounties[b].creator, b, a) = "")
    /\ [][\A b \in DOMAIN bounties :
            (bounties[b].status = "Active" /\ bounties'[b].status = "Claimed")
            => LET A == bounties[b].currentAmount
                   fee == (A * platformFeeBps) \div BpsDenominator
                   paid == IF fee > 0 /\ feeRecipient # ZERO THEN fee ELSE 0
               IN  /\ bounties'[b].maxAmount = bounties[b].maxAmount
                   /\ balance' =
                          Move(Move(balance, ESCROW, bounties'[b].solver,
                                    A - fee),
                               ESCROW, feeRecipient, paid)]_vars

\* a bounty created with cap 150, topped up to 150 and released while the
\* maximum is 120 and the fee 10% to the admin: the solver holds 135 and the
\* admin the fee of 15
C37_Witness ==
    /\ maxBountyAmount = 120
    /\ platformFeeBps = 1000
    /\ feeRecipient = ADMIN
    /\ \E b \in DOMAIN bounties :
          /\ bounties[b].status = "Claimed"
          /\ bounties[b].currentAmount = 150
          /\ bounties[b].maxAmount = 150
    /\ balance[SOLVER] = 135
    /\ balance[ADMIN] = 15

\* occurrences of bountyId in an index array
occurrences(ids, bountyId) ==
    Cardinality({n \in DOMAIN ids : ids[n] = bountyId})

\* C38: the bounties are numbered 1, 2, 3, ... in the order of their
\* creation and a number, once given, names the same bounty ever after;
\* a bounty's id stands exactly once in its creator's creatorBounties, which
\* lists the creator's bounties in the order of creation; a bounty has a
\* solver exactly when it is Claimed, exactly when claimedAt is set; and its
\* id stands in solverBounties[solver] exactly once when it is Claimed and
\* in no solverBounties otherwise.
C38_IndexConsistency ==
    /\ [](/\ nextBountyId = Len(bounties) + 1
          /\ \A b \in DOMAIN bounties :
                /\ bounties[b].id = b
                /\ \A o \in DOMAIN bounties :
                      o < b => bounties[o].createdAt <= bounties[b].createdAt
                /\ \A a \in Callers :
                      occurrences(creatorBounties[a], b) =
                          IF bounties[b].creator = a THEN 1 ELSE 0
                /\ (bounties[b].solver # ZERO) = (bounties[b].status = "Claimed")
                /\ (bounties[b].claimedAt # 0) = (bounties[b].status = "Claimed")
                /\ \A s \in Solvers :
                      occurrences(solverBounties[s], b) =
                          IF bounties[b].status = "Claimed"
                             /\ bounties[b].solver = s
                          THEN 1 ELSE 0
          /\ \A a \in Callers :
                \A n \in DOMAIN creatorBounties[a] :
                    /\ creatorBounties[a][n] \in DOMAIN bounties
                    /\ \A k \in DOMAIN creatorBounties[a] :
                          k < n => creatorBounties[a][k] < creatorBounties[a][n])
    /\ [][/\ nextBountyId' >= nextBountyId
          /\ \A b \in DOMAIN bounties :
                /\ b \in DOMAIN bounties'
                /\ bounties'[b].creator = bounties[b].creator
                /\ bounties'[b].createdAt = bounties[b].createdAt
                /\ bounties'[b].issueId = bounties[b].issueId]_vars

\* two bounties of two creators, the first released to the solver and the
\* second cancelled
C38_Witness ==
    /\ Len(bounties) = 2
    /\ bounties[1].creator # bounties[2].creator
    /\ bounties[1].status = "Claimed"
    /\ bounties[2].status = "Cancelled"
    /\ solverBounties[SOLVER] = <<1>>
    /\ creatorBounties[bounties[2].creator] = <<2>>

\* C39: whenever the gateway is initialized, activeService is the service of
\* the rail useBlockchain names, and that rail's service reference is set
\* and the service behind it initialized; and while the gateway is not
\* initialized, getBalance, sendPayment, validateAddress and calculateFee
\* throw before reaching any rail service.
C39_RailConsistency ==
    /\ initialized =>
          LET rail == IF useBlockchain THEN ETHEREUM_RAIL ELSE MNEE_RAIL
              reference == IF useBlockchain THEN ethereumService
                           ELSE mneeService
          IN  /\ activeService = rail
              /\ reference # NULL
              /\ serviceInitialized[rail]
    /\ ~initialized =>
          \A op \in RailAgnosticOps : serviceReached(op) = "throw"

====
